---- MODULE Spec2Model ----
(***************************************************************************)
(* LITS: a learned index over null-terminated byte strings.                *)
(*                                                                         *)
(* A key is the sequence of its non-zero bytes; the terminating zero byte  *)
(* is the byte read at index Len(key).  C indices are 0-based, so byte i   *)
(* of key s is Ch(s, i).  A double is modelled as a fixed-point number     *)
(* with FixOne units to 1.0, every product and quotient rounded down.      *)
(***************************************************************************)
EXTENDS Integers, Sequences, FiniteSets, TLC

\* ------------------------------------------------------------------------
\* Program constants
\* ------------------------------------------------------------------------
MAX_CH == 128
MAX_STACK == 128
CNODE_SIZE == 16
ScaleFactor == 2
min_bulk_load_size == 1000
PS_HASH_LEN == 5
FC_HASH_LEN == 5
PS_SZ == 2 ^ PS_HASH_LEN
FC_SZ == 2 ^ FC_HASH_LEN

\* Fixed-point unit standing for the double 1.0
FixOne == 2 ^ 12
\* HPT::AF = 0.5, as the divisor of one attenuation step
AF_DIV == 2
\* getCdf's min_double (2^-52): the smallest positive fixed-point value
min_double == 1

\* the null pointer
NULL == [t |-> "NULL"]

\* ------------------------------------------------------------------------
\* String utilities (lits_utils / lits_gpkl)
\* ------------------------------------------------------------------------
Ch(s, i) == IF i < Len(s) THEN s[i + 1] ELSE 0

\* the string starting at s + ofs
StrAt(s, ofs) == SubSeq(s, ofs + 1, Len(s))

ustrlen(s) == Len(s)

RECURSIVE cplFrom(_, _, _)
cplFrom(s1, s2, i) ==
    IF Ch(s1, i) # 0 /\ Ch(s2, i) # 0 /\ Ch(s1, i) = Ch(s2, i)
    THEN cplFrom(s1, s2, i + 1)
    ELSE i

ucpl(s1, s2) == cplFrom(s1, s2, 0)

udpl(s1, s2) == ucpl(s1, s2) + 1

Max2(a, b) == IF a >= b THEN a ELSE b
Min2(a, b) == IF a <= b THEN a ELSE b

udpl3(s1, s2, s3) == Max2(udpl(s1, s2), udpl(s2, s3))

ustrcmp(s1, s2) ==
    LET i == cplFrom(s1, s2, 0)
    IN  IF Ch(s1, i) = Ch(s2, i) THEN 0
        ELSE IF Ch(s1, i) > Ch(s2, i) THEN 1 ELSE -1

\* ustrcmp(s1, s2, len): the first len bytes only
RECURSIVE ustrncmpFrom(_, _, _, _)
ustrncmpFrom(s1, s2, len, i) ==
    IF i >= len THEN 0
    ELSE IF Ch(s1, i) # Ch(s2, i)
         THEN (IF Ch(s1, i) > Ch(s2, i) THEN 1 ELSE -1)
         ELSE ustrncmpFrom(s1, s2, len, i + 1)

ustrncmp(s1, s2, len) == ustrncmpFrom(s1, s2, len, 0)

RECURSIVE Xor(_, _)
Xor(a, b) ==
    IF a = 0 THEN b
    ELSE IF b = 0 THEN a
    ELSE (((a % 2) + (b % 2)) % 2) + 2 * Xor(a \div 2, b \div 2)

hashStr(key) ==
    LET ret == ustrlen(key) % 65536
        c1 == Ch(key, ret \div 2)
        c2 == Ch(key, (2 * ret) \div 3)
        c3 == Ch(key, (4 * ret) \div 5)
    IN  Xor(Xor(Xor(ret, c1), c2), c3)

\* the check with equal neighbours let through
checkSortedUnique_nonStrict(keys) ==
    \A i \in 2..Len(keys) : ustrcmp(keys[i], keys[i - 1]) >= 0

checkSortedUnique(keys) ==
    \A i \in 2..Len(keys) : ustrcmp(keys[i], keys[i - 1]) > 0

\* the dkl term of key i of the group [l, r) (0-based, kvs 1-based)
dklAt(kvs, l, r, i) ==
    IF i = l THEN udpl(kvs[l + 1].k, kvs[l + 2].k)
    ELSE IF i = r - 1 THEN udpl(kvs[r - 1].k, kvs[r].k)
    ELSE udpl3(kvs[i].k, kvs[i + 1].k, kvs[i + 2].k)

RECURSIVE SumRange(_, _, _)
\* sum of f[i] over lo..hi, by halving
SumRange(f, lo, hi) ==
    IF lo > hi THEN 0
    ELSE IF lo = hi THEN f[lo]
    ELSE LET mid == (lo + hi) \div 2
         IN  SumRange(f, lo, mid) + SumRange(f, mid + 1, hi)

\* getGPKL: avg_dkl - lcpl, in fixed point
getGPKL(kvs, l, r) ==
    LET len == r - l
        lcpl == ucpl(kvs[l + 1].k, kvs[r].k)
        dkl == [i \in l..(r - 1) |-> dklAt(kvs, l, r, i)]
        dkl_sum == SumRange(dkl, l, r - 1)
    IN  (dkl_sum * FixOne) \div len - lcpl * FixOne

\* ------------------------------------------------------------------------
\* Fixed-point arithmetic for the doubles of the HPT
\* ------------------------------------------------------------------------
\* x * y for x, y >= 0 in fixed point (y <= FixOne), without overflowing
FMul(x, y) == ((x \div FixOne) * y) + (((x % FixOne) * y) \div FixOne)

\* c / t as a fixed-point fraction, for 0 <= c <= t
FDiv(c, t) ==
    LET h == 2 ^ (PS_HASH_LEN + 1)
        t1 == c * h
    IN  ((t1 \div t) * (FixOne \div h)) + (((t1 % t) * (FixOne \div h)) \div t)

\* static_cast<int> of a fixed-point value: truncation toward zero
ToInt(c) == IF c >= 0 THEN c \div FixOne ELSE -((-c) \div FixOne)

\* ------------------------------------------------------------------------
\* Hash-enhanced Prefix Table (lits_model)
\* ------------------------------------------------------------------------
UNI0 == [CDF |-> 0, PRO |-> 0]

\* HPT(): every unit zero; only the lines that were trained are stored
HPT_new == [line \in {} |-> UNI0]

\* m[ps][fc][ch].  A trained line stores the units of the characters that
\* occur in the training keys; any other character of the line has PRO 0
\* and the CDF accumulated over the characters below it
Uni(m, ps, fc, ch) ==
    IF <<ps, fc>> \notin DOMAIN m THEN UNI0
    ELSE LET line == m[<<ps, fc>>]
             below == {c \in DOMAIN line : c < ch}
             top == CHOOSE c \in below : \A x \in below : x <= c
         IN  IF ch \in DOMAIN line THEN line[ch]
             ELSE IF below = {} THEN UNI0
             ELSE [CDF |-> line[top].CDF + line[top].PRO, PRO |-> 0]

\* the distinguishing prefix length of key i (1-based) among its neighbours
trainMaxLen(keys, i) ==
    LET len == Len(keys)
    IN  IF i = 1 THEN ucpl(keys[1], keys[2]) + 1
        ELSE IF i = len THEN ucpl(keys[len], keys[len - 1]) + 1
        ELSE Max2(ucpl(keys[i], keys[i - 1]), ucpl(keys[i], keys[i + 1])) + 1

weight(d) == FixOne \div (AF_DIV ^ d)

\* HPT::train: the table after the counting loop and the normalisation
train(keys) ==
    LET len  == Len(keys)
        gcpl == ucpl(keys[1], keys[len]) % 256
        top  == [i \in 1..len |-> Min2(ustrlen(keys[i]), trainMaxLen(keys, i))]
        fcOf(i, b) == IF b = 0 THEN 0 ELSE Ch(keys[i], b - 1) % FC_SZ
        \* the (key, byte offset) pairs the counting loop visits
        hits == UNION {{<<i, b>> : b \in gcpl..(top[i] - 1)} : i \in 1..len}
        lines == {<<h[2] % PS_SZ, fcOf(h[1], h[2])>> : h \in hits}
        hitsOf(line) == {h \in hits : <<h[2] % PS_SZ, fcOf(h[1], h[2])>> = line}
        chars == {Ch(keys[h[1]], h[2]) : h \in hits}
        depths == {h[2] : h \in hits}
        \* the accumulated weight of unit (line, ch)
        cnt(hs, ch) ==
            LET w == [b \in depths |->
                        weight(b - gcpl)
                        * Cardinality({h \in hs : h[2] = b /\ Ch(keys[h[1]], b) = ch})]
            IN  SumRange([j \in 1..Cardinality(depths) |->
                            LET b == CHOOSE x \in depths :
                                       Cardinality({y \in depths : y < x}) = j - 1
                            IN  w[b]], 1, Cardinality(depths))
        lineTab(line) ==
            LET hs == hitsOf(line)
                c == [ch \in chars |-> cnt(hs, ch)]
                ord == [j \in 1..Cardinality(chars) |->
                          CHOOSE x \in chars : Cardinality({y \in chars : y < x}) = j - 1]
                this_line_wgt == SumRange([j \in 1..Cardinality(chars) |-> c[ord[j]]],
                                          1, Cardinality(chars))
                pro == [ch \in chars |-> FDiv(c[ch], this_line_wgt)]
                below(ch) == Cardinality({y \in chars : y < ch})
            IN  [ch \in chars |->
                    [CDF |-> SumRange([j \in 1..Cardinality(chars) |-> pro[ord[j]]],
                                      1, below(ch)),
                     PRO |-> pro[ch]]]
    IN  [line \in lines |-> lineTab(line)]

\* the loop shared by getPos, getPos_woGCPL and getCdf, from byte i on.
\* It accumulates the unscaled cdf and pro; `scale` and `least` give the loop
\* condition  scale * pro >= least  (getPos: size * k * pro >= 1 with
\* k = 1 / den, that is size * pro >= den; getCdf: pro >= min_double)
RECURSIVE hptWalk(_, _, _, _, _, _, _)
hptWalk(m, key, i, cdf, pro, scale, least) ==
    IF Ch(key, i) # 0 /\ scale * pro >= least
    THEN LET uni == Uni(m, i % PS_SZ, Ch(key, i - 1) % FC_SZ, Ch(key, i))
         IN  hptWalk(m, key, i + 1, cdf + FMul(pro, uni.CDF), FMul(pro, uni.PRO),
                     scale, least)
    ELSE cdf

\* static_cast<int>(size * k * cdf + size * b) for k = 1 / (max_cdf - min_cdf)
\* and b = min_cdf / (min_cdf - max_cdf): truncation toward zero
scalePos(size, cdf, min_cdf, max_cdf) ==
    LET n == size * (cdf - min_cdf)
        d == max_cdf - min_cdf
    IN  IF n >= 0 THEN n \div d ELSE -((-n) \div d)

\* The node's k and b are kept as the pair (min_cdf, max_cdf) they are
\* computed from, so that the position is rounded once
getPos(m, key, size, gcpl, min_cdf, max_cdf) ==
    scalePos(size, hptWalk(m, key, gcpl, 0, FixOne, size, max_cdf - min_cdf),
             min_cdf, max_cdf)

getPos_woGCPL(m, key, size, min_cdf, max_cdf) ==
    LET uni == Uni(m, 0, 0, Ch(key, 0))
    IN  scalePos(size,
                 hptWalk(m, key, 1, FMul(FixOne, uni.CDF), FMul(FixOne, uni.PRO),
                         size, max_cdf - min_cdf),
                 min_cdf, max_cdf)

\* getCdf reads key[gcpl - 1]; for gcpl = 0 that is the byte in front of the
\* key's buffer, whose front-char bucket is `pre`
getCdf(m, key, gcpl, pre) ==
    IF gcpl = 0
    THEN IF Ch(key, 0) # 0
         THEN LET uni == Uni(m, 0, pre, Ch(key, 0))
              IN  hptWalk(m, key, 1, FMul(FixOne, uni.CDF), FMul(FixOne, uni.PRO),
                          1, min_double)
         ELSE 0
    ELSE hptWalk(m, key, gcpl, 0, FixOne, 1, min_double)

\* ------------------------------------------------------------------------
\* PMSS, the structural chooser.  A policy is a size limit and a GPKL
\* threshold in fixed point: groups that are small enough or whose GPKL does
\* not exceed the threshold are tried as model nodes.
\* ------------------------------------------------------------------------
STYP_Items == "Items"
STYP_Trie == "Trie"

decideSubType(pmss, size, gpkl) ==
    IF size <= pmss.size \/ gpkl <= pmss.gpkl THEN STYP_Items ELSE STYP_Trie

\* ------------------------------------------------------------------------
\* Items (lits_base): the five variants of a slot
\* ------------------------------------------------------------------------
ITYP_Null == "Null"
ITYP_Sing == "Sing"
ITYP_Mult == "Mult"
ITYP_Trie == "Trie"
ITYP_CNod == "CNod"

NullItem == [t |-> ITYP_Null]
SingItem(e) == [t |-> ITYP_Sing, kv |-> e]
CNodItem(c, d) == [t |-> ITYP_CNod, ccpl |-> c, data |-> d]
TrieItem(es) == [t |-> ITYP_Trie, hot |-> es]
MultItem(len, num, min_cdf, max_cdf, prefix, items) ==
    [t |-> ITYP_Mult, item_array_length |-> len, num_of_keys |-> num,
     min_cdf |-> min_cdf, max_cdf |-> max_cdf, prefix |-> prefix, items |-> items]

KV(key, val) == [k |-> key, v |-> val]

\* a kv pointer with the key's hash in its upper 16 bits
new_hash_kv(e) == [h |-> hashStr(e.k), kv |-> e]

\* the item array is stored sparsely: an absent position is a null item
ItemAt(node, pos) ==
    IF pos \in DOMAIN node.items THEN node.items[pos] ELSE NullItem

\* the front-char bucket getCdf finds in front of record i (0-based).
\* fb >= 0: caller arrays (KVS2), the byte in front of a key buffer is not
\* the key's and fb is the bucket it falls in.  fb < 0: kv records (KVS1),
\* the byte in front of k is the top byte of v, zero for every value below
\* 2^56, which the values of this model stand for.
frontOf(kvs, i, fb) ==
    IF fb >= 0 THEN fb ELSE 0

\* predictPos with the raw prediction returned as it is
predictPos_unclamped(node, key, ccpl, model) ==
    LET prefix == node.prefix
        icpl == Len(prefix)
        N == node.item_array_length
        cmp_res == IF icpl # 0 THEN ustrncmp(prefix, StrAt(key, ccpl), icpl) ELSE 0
        pos == IF ccpl + icpl # 0
               THEN getPos(model, key, N - 2, ccpl + icpl, node.min_cdf, node.max_cdf) + 1
               ELSE getPos_woGCPL(model, key, N - 2, node.min_cdf, node.max_cdf) + 1
    IN  IF cmp_res = -1 THEN [pos |-> N - 1, ccpl |-> ccpl]
        ELSE IF cmp_res = 1 THEN [pos |-> 0, ccpl |-> ccpl]
        ELSE [pos |-> pos, ccpl |-> ccpl + icpl]

\* predictPos with ccpl advanced past a prefix the key does not carry
predictPos_advancing(node, key, ccpl, model) ==
    LET prefix == node.prefix
        icpl == Len(prefix)
        N == node.item_array_length
        cmp_res == IF icpl # 0 THEN ustrncmp(prefix, StrAt(key, ccpl), icpl) ELSE 0
        pos == IF ccpl + icpl # 0
               THEN getPos(model, key, N - 2, ccpl + icpl, node.min_cdf, node.max_cdf) + 1
               ELSE getPos_woGCPL(model, key, N - 2, node.min_cdf, node.max_cdf) + 1
    IN  IF cmp_res = -1 THEN [pos |-> N - 1, ccpl |-> ccpl + icpl]
        ELSE IF cmp_res = 1 THEN [pos |-> 0, ccpl |-> ccpl + icpl]
        ELSE [pos |-> Max2(Min2(pos, N - 2), 1), ccpl |-> ccpl + icpl]

\* predictPos with the two boundary positions taken for each other
predictPos_swapped(node, key, ccpl, model) ==
    LET prefix == node.prefix
        icpl == Len(prefix)
        N == node.item_array_length
        cmp_res == IF icpl # 0 THEN ustrncmp(prefix, StrAt(key, ccpl), icpl) ELSE 0
        pos == IF ccpl + icpl # 0
               THEN getPos(model, key, N - 2, ccpl + icpl, node.min_cdf, node.max_cdf) + 1
               ELSE getPos_woGCPL(model, key, N - 2, node.min_cdf, node.max_cdf) + 1
    IN  IF cmp_res = -1 THEN [pos |-> 0, ccpl |-> ccpl]
        ELSE IF cmp_res = 1 THEN [pos |-> N - 1, ccpl |-> ccpl]
        ELSE [pos |-> Max2(Min2(pos, N - 2), 1), ccpl |-> ccpl + icpl]

predictPos(node, key, ccpl, model) ==
    LET prefix == node.prefix
        icpl == Len(prefix)
        N == node.item_array_length
        cmp_res == IF icpl # 0 THEN ustrncmp(prefix, StrAt(key, ccpl), icpl) ELSE 0
        pos == IF ccpl + icpl # 0
               THEN getPos(model, key, N - 2, ccpl + icpl, node.min_cdf, node.max_cdf) + 1
               ELSE getPos_woGCPL(model, key, N - 2, node.min_cdf, node.max_cdf) + 1
    IN  IF cmp_res = -1 THEN [pos |-> N - 1, ccpl |-> ccpl]
        ELSE IF cmp_res = 1 THEN [pos |-> 0, ccpl |-> ccpl]
        ELSE [pos |-> Max2(Min2(pos, N - 2), 1), ccpl |-> ccpl + icpl]

\* first index i in lo..hi with idx[i] >= p, or hi + 1 (idx is non-decreasing)
RECURSIVE lowerBound(_, _, _, _)
lowerBound(idx, p, lo, hi) ==
    IF lo > hi THEN lo
    ELSE LET mid == (lo + hi) \div 2
         IN  IF idx[mid] >= p THEN lowerBound(idx, p, lo, mid - 1)
             ELSE lowerBound(idx, p, mid + 1, hi)

new_cnode(kvs, l, r, ccpl) ==
    CNodItem(ccpl, [i \in 1..(r - l) |-> new_hash_kv(kvs[l + i])])

\* HOTBulkload with the loop ended one record early
HOTBulkload_oneShort(kvs, l, r) == TrieItem(SubSeq(kvs, l + 1, r - 1))

\* HOTBulkload: the sub-trie holds the records of [l, r), in key order
HOTBulkload(kvs, l, r) == TrieItem(SubSeq(kvs, l + 1, r))

RECURSIVE pmss_bulk(_, _, _, _, _, _, _)
RECURSIVE try_rebulk_as_model_node(_, _, _, _, _, _, _)

\* the distribution of a group over the positions of its model node with a
\* run that is never closed: every key goes to the branch of the last key
bulk_groups_oneBranch(kvs, l, r, ccpl, model, fb) ==
    LET size == r - l
        gcpl == ucpl(kvs[l + 1].k, kvs[r].k)
        min_cdf == getCdf(model, kvs[l + 1].k, gcpl, frontOf(kvs, l, fb))
        max_cdf == getCdf(model, kvs[r].k, gcpl, frontOf(kvs, r - 1, fb))
        new_node == MultItem(size * ScaleFactor, size, min_cdf, max_cdf,
                             SubSeq(kvs[l + 1].k, ccpl + 1, gcpl),
                             [p \in {} |-> NullItem])
    IN  IF max_cdf <= min_cdf THEN [ok |-> FALSE, gcpl |-> gcpl, stack |-> {}]
        ELSE LET S == {IF \E i \in (l + 2)..r : idx[i] < idx[i - 1]
                  THEN [ok |-> FALSE, gcpl |-> gcpl, stack |-> {}]
                  ELSE [ok |-> TRUE, gcpl |-> gcpl,
                        stack |-> {[to_bulk_idx |-> idx[r], l_in_kvs |-> l,
                                    r_in_kvs |-> r]}]
                  : idx \in {[i \in (l + 1)..r |->
                                predictPos(new_node, kvs[i].k, ccpl, model).pos]}}
             IN  CHOOSE x \in S : TRUE

\* _try_rebulk_as_model_node up to its last loop: whether the node can be
\* built, and the bulk_stack it has pushed (position, l, r of every branch)
bulk_groups(kvs, l, r, ccpl, model, fb) ==
    LET size == r - l
        gcpl == ucpl(kvs[l + 1].k, kvs[r].k)
        min_cdf == getCdf(model, kvs[l + 1].k, gcpl, frontOf(kvs, l, fb))
        max_cdf == getCdf(model, kvs[r].k, gcpl, frontOf(kvs, r - 1, fb))
        new_node == MultItem(size * ScaleFactor, size, min_cdf, max_cdf,
                             SubSeq(kvs[l + 1].k, ccpl + 1, gcpl),
                             [p \in {} |-> NullItem])
    IN  IF max_cdf <= min_cdf THEN [ok |-> FALSE, gcpl |-> gcpl, stack |-> {}]
        ELSE LET S == {IF idx[l + 1] >= idx[r] \/ \E i \in (l + 2)..r : idx[i] < idx[i - 1]
                  THEN [ok |-> FALSE, gcpl |-> gcpl, stack |-> {}]
                  ELSE [ok |-> TRUE, gcpl |-> gcpl,
                        stack |-> {[to_bulk_idx |-> idx[i],
                                    l_in_kvs |-> lowerBound(idx, idx[i], l + 1, r) - 1,
                                    r_in_kvs |-> lowerBound(idx, idx[i] + 1, l + 1, r) - 1]
                                   : i \in (l + 1)..r}]
                  : idx \in {[i \in (l + 1)..r |->
                                predictPos(new_node, kvs[i].k, ccpl, model).pos]}}
             IN  CHOOSE x \in S : TRUE

\* the model node over [l, r), or NULL when the build fails
\* the build with the children built at the ccpl of the node itself
try_rebulk_as_model_node_childAtCcpl(kvs, l, r, ccpl, model, pmss, fb) ==
    LET size == r - l
        item_array_length == size * ScaleFactor
        gcpl == ucpl(kvs[l + 1].k, kvs[r].k)
        icpl == gcpl - ccpl
        min_cdf == getCdf(model, kvs[l + 1].k, gcpl, frontOf(kvs, l, fb))
        max_cdf == getCdf(model, kvs[r].k, gcpl, frontOf(kvs, r - 1, fb))
        new_node == MultItem(item_array_length, size, min_cdf, max_cdf,
                             SubSeq(kvs[l + 1].k, ccpl + 1, ccpl + icpl),
                             [p \in {} |-> NullItem])
        first_key_idx == predictPos(new_node, kvs[l + 1].k, ccpl, model).pos
        final_key_idx == predictPos(new_node, kvs[r].k, ccpl, model).pos
        idx == [i \in (l + 1)..r |-> predictPos(new_node, kvs[i].k, ccpl, model).pos]
        positions == {idx[i] : i \in (l + 1)..r}
    IN  IF max_cdf <= min_cdf THEN NULL
        ELSE IF first_key_idx >= final_key_idx THEN NULL
        ELSE IF \E i \in (l + 2)..r : idx[i] < idx[i - 1] THEN NULL
        ELSE [new_node EXCEPT !.items =
                 [p \in positions |->
                    pmss_bulk(kvs,
                              lowerBound(idx, p, l + 1, r) - 1,
                              lowerBound(idx, p + 1, l + 1, r) - 1,
                              ccpl, model, pmss, fb)]]

try_rebulk_as_model_node(kvs, l, r, ccpl, model, pmss, fb) ==
    LET size == r - l
        item_array_length == size * ScaleFactor
        gcpl == ucpl(kvs[l + 1].k, kvs[r].k)
        icpl == gcpl - ccpl
        min_cdf == getCdf(model, kvs[l + 1].k, gcpl, frontOf(kvs, l, fb))
        max_cdf == getCdf(model, kvs[r].k, gcpl, frontOf(kvs, r - 1, fb))
        new_node == MultItem(item_array_length, size, min_cdf, max_cdf,
                             SubSeq(kvs[l + 1].k, ccpl + 1, ccpl + icpl),
                             [p \in {} |-> NullItem])
        first_key_idx == predictPos(new_node, kvs[l + 1].k, ccpl, model).pos
        final_key_idx == predictPos(new_node, kvs[r].k, ccpl, model).pos
        idx == [i \in (l + 1)..r |-> predictPos(new_node, kvs[i].k, ccpl, model).pos]
        positions == {idx[i] : i \in (l + 1)..r}
    IN  IF max_cdf <= min_cdf THEN NULL
        ELSE IF first_key_idx >= final_key_idx THEN NULL
        ELSE IF \E i \in (l + 2)..r : idx[i] < idx[i - 1] THEN NULL
        ELSE [new_node EXCEPT !.items =
                 [p \in positions |->
                    pmss_bulk(kvs,
                              lowerBound(idx, p, l + 1, r) - 1,
                              lowerBound(idx, p + 1, l + 1, r) - 1,
                              gcpl, model, pmss, fb)]]

\* pmss_bulk with a full compact node taken for too large
pmss_bulk_belowSize(kvs, l, r, ccpl, model, pmss, fb) ==
    LET size == r - l
        child == try_rebulk_as_model_node(kvs, l, r, ccpl, model, pmss, fb)
    IN  IF size = 1 THEN SingItem(kvs[l + 1])
        ELSE IF size < CNODE_SIZE THEN new_cnode(kvs, l, r, ccpl)
        ELSE IF decideSubType(pmss, size, getGPKL(kvs, l, r)) = STYP_Items
                /\ child # NULL
             THEN child
        ELSE HOTBulkload(kvs, l, r)

pmss_bulk(kvs, l, r, ccpl, model, pmss, fb) ==
    LET size == r - l
        child == try_rebulk_as_model_node(kvs, l, r, ccpl, model, pmss, fb)
    IN  IF size = 1 THEN SingItem(kvs[l + 1])
        ELSE IF size <= CNODE_SIZE THEN new_cnode(kvs, l, r, ccpl)
        ELSE IF decideSubType(pmss, size, getGPKL(kvs, l, r)) = STYP_Items
                /\ child # NULL
             THEN child
        ELSE HOTBulkload(kvs, l, r)

\* ------------------------------------------------------------------------
\* HOT sub-trie (hot_src): an ordered set of records, kept as the sequence
\* of its records in ascending key order
\* ------------------------------------------------------------------------
END_ITERATOR == 0

\* number of records of positions lo..hi with a key below k, plus lo - 1
RECURSIVE hotLower(_, _, _, _)
hotLower(hot, k, lo, hi) ==
    IF lo > hi THEN lo - 1
    ELSE LET mid == (lo + hi) \div 2
         IN  IF ustrcmp(hot[mid].k, k) < 0 THEN hotLower(hot, k, mid + 1, hi)
             ELSE hotLower(hot, k, lo, mid - 1)

\* number of records with a key below k
hotRank(hot, k) == hotLower(hot, k, 1, Len(hot))

\* the iterator (1-based position) of key k, or END_ITERATOR
HOTFind(hot, k) ==
    LET i == hotRank(hot, k) + 1
    IN  IF i <= Len(hot) /\ ustrcmp(hot[i].k, k) = 0 THEN i ELSE END_ITERATOR

HOTBegin(hot) == IF Len(hot) > 0 THEN 1 ELSE END_ITERATOR

HOTLookup(hot, k) ==
    LET i == HOTFind(hot, k)
    IN  IF i # END_ITERATOR THEN hot[i] ELSE NULL

HOTInsert(hot, k, v) ==
    LET r == hotRank(hot, k)
    IN  IF HOTFind(hot, k) # END_ITERATOR
        THEN [hot |-> hot, result |-> FALSE]
        ELSE [hot |-> SubSeq(hot, 1, r) \o <<KV(k, v)>> \o SubSeq(hot, r + 1, Len(hot)),
              result |-> TRUE]

\* the replaced record, or NULL when k was inserted
HOTUpsert(hot, k, v) ==
    LET i == HOTFind(hot, k)
    IN  IF i # END_ITERATOR
        THEN [hot |-> [hot EXCEPT ![i] = KV(k, v)], result |-> hot[i]]
        ELSE [hot |-> HOTInsert(hot, k, v).hot, result |-> NULL]

HOTRemove(hot, k) ==
    LET i == HOTFind(hot, k)
    IN  IF i # END_ITERATOR
        THEN [hot |-> SubSeq(hot, 1, i - 1) \o SubSeq(hot, i + 1, Len(hot)),
              result |-> TRUE]
        ELSE [hot |-> hot, result |-> FALSE]

\* ------------------------------------------------------------------------
\* Compact nodes (lits_cnode)
\* ------------------------------------------------------------------------
key_cnt(cnode) == Len(cnode.data)

\* a compact node that takes one entry more than its size
has_room_oneMore(cnode) == key_cnt(cnode) <= CNODE_SIZE

has_room(cnode) == key_cnt(cnode) < CNODE_SIZE
more_than_2(cnode) == key_cnt(cnode) > 2

keycmp(e, key, ofs) == ustrcmp(StrAt(key, ofs), StrAt(e.k, ofs))
verify(e, key, ofs) == ustrcmp(StrAt(key, ofs), StrAt(e.k, ofs)) = 0

extract_cnode(cnode) == [i \in 1..key_cnt(cnode) |-> cnode.data[i].kv]

\* index (1-based) of the first entry whose hash and key match, or 0
cnodeMatch(cnode, ckey) ==
    LET hv == hashStr(ckey)
        hit == {i \in 1..key_cnt(cnode) :
                  cnode.data[i].h = hv /\ verify(cnode.data[i].kv, ckey, cnode.ccpl)}
    IN  IF hit = {} THEN 0 ELSE CHOOSE i \in hit : \A j \in hit : i <= j

cnode_search(cnode, ckey) ==
    LET i == cnodeMatch(cnode, ckey)
    IN  IF i = 0 THEN NULL ELSE cnode.data[i].kv

\* sign of the comparison of entry i with ckey, from ccpl on
cnodeCmp(cnode, i, ckey) ==
    ustrcmp(StrAt(cnode.data[i].kv.k, cnode.ccpl), StrAt(ckey, cnode.ccpl))

\* the index at which the scanning loop stops: the first i whose entry does
\* not compare below ckey, or key_cnt + 1
cnodeStop(cnode, ckey) ==
    LET ge == {i \in 1..key_cnt(cnode) : cnodeCmp(cnode, i, ckey) >= 0}
    IN  IF ge = {} THEN key_cnt(cnode) + 1 ELSE CHOOSE i \in ge : \A j \in ge : i <= j

\* the index of the first entry above ckey, or key_cnt + 1
cnodeCut(cnode, ckey) ==
    LET gt == {i \in 1..key_cnt(cnode) : cnodeCmp(cnode, i, ckey) > 0}
    IN  IF gt = {} THEN key_cnt(cnode) + 1 ELSE CHOOSE i \in gt : \A j \in gt : i <= j

\* the scanning loop meets an entry equal to ckey before it stops
cnodeScanHit(cnode, ckey) ==
    LET i == cnodeStop(cnode, ckey)
    IN  i <= key_cnt(cnode) /\ cnodeCmp(cnode, i, ckey) = 0

InsertAt(seq, i, x) == SubSeq(seq, 1, i - 1) \o <<x>> \o SubSeq(seq, i, Len(seq))
RemoveAt(seq, i) == SubSeq(seq, 1, i - 1) \o SubSeq(seq, i + 1, Len(seq))

\* kvs is the extracted record list; ok = FALSE leaves cnode and kvs alone
try_extract_keys_if_valid_insert(cnode, k, v) ==
    IF cnodeScanHit(cnode, k)
    THEN [ok |-> FALSE, kvs |-> <<>>]
    ELSE [ok |-> TRUE,
          kvs |-> InsertAt(extract_cnode(cnode), cnodeStop(cnode, k), KV(k, v))]

\* res is the returned old value; on a match the record is updated in place
\* and kvs stays empty
try_extract_keys_if_valid_upsert(cnode, k, v) ==
    LET i == cnodeStop(cnode, k)
    IN  IF cnodeScanHit(cnode, k)
        THEN [res |-> cnode.data[i].kv.v, hit |-> TRUE, kvs |-> <<>>,
              cnode |-> [cnode EXCEPT !.data[i].kv.v = v]]
        ELSE [res |-> 0, hit |-> FALSE,
              kvs |-> InsertAt(extract_cnode(cnode), i, KV(k, v)),
              cnode |-> cnode]

\* the insert with the new entry put behind the last one
cnode_withRoom_insert_atEnd(cnode, ckey, cval) ==
    IF cnodeScanHit(cnode, ckey)
    THEN [cnode |-> cnode, result |-> FALSE]
    ELSE [cnode |-> [cnode EXCEPT !.data =
                        Append(cnode.data, new_hash_kv(KV(ckey, cval)))],
          result |-> TRUE]

cnode_withRoom_insert(cnode, ckey, cval) ==
    IF cnodeScanHit(cnode, ckey)
    THEN [cnode |-> cnode, result |-> FALSE]
    ELSE [cnode |-> [cnode EXCEPT !.data =
                        InsertAt(cnode.data, cnodeStop(cnode, ckey),
                                 new_hash_kv(KV(ckey, cval)))],
          result |-> TRUE]

cnode_withRoom_upsert(cnode, ckey, cval) ==
    LET i == cnodeMatch(cnode, ckey)
    IN  IF i # 0
        THEN [cnode |-> [cnode EXCEPT !.data[i].kv.v = cval],
              result |-> cnode.data[i].kv.v]
        ELSE [cnode |-> [cnode EXCEPT !.data =
                            InsertAt(cnode.data, cnodeCut(cnode, ckey),
                                     new_hash_kv(KV(ckey, cval)))],
              result |-> 0]

\* _cnode_withRoom_remove with the copy loops shifted by one: the entry
\* after the matching one is left out
cnode_withRoom_remove_nextEntry(cnode, ckey) ==
    LET i == cnodeMatch(cnode, ckey)
    IN  IF i = 0
        THEN [cnode |-> cnode, result |-> FALSE]
        ELSE [cnode |-> [cnode EXCEPT !.data =
                            RemoveAt(cnode.data, IF i < key_cnt(cnode) THEN i + 1 ELSE i)],
              result |-> TRUE]

cnode_withRoom_remove(cnode, ckey) ==
    LET i == cnodeMatch(cnode, ckey)
    IN  IF i = 0
        THEN [cnode |-> cnode, result |-> FALSE]
        ELSE [cnode |-> [cnode EXCEPT !.data = RemoveAt(cnode.data, i)],
              result |-> TRUE]

\* the surviving record, or NULL when ckey is not in the node
cnode_degrade(cnode, ckey) ==
    LET i == cnodeMatch(cnode, ckey)
    IN  IF i = 0 THEN NULL ELSE cnode.data[3 - i].kv

\* ------------------------------------------------------------------------
\* Operations on a terminal item (lits_node).  The mutating ones give the
\* item that takes the place of `node`, the returned value and the fault
\* raised on the way ("none", "assert" for a failed RT_ASSERT, "ub" for
\* undefined behaviour).
\* ------------------------------------------------------------------------
Outcome(it, res, f) == [item |-> it, result |-> res, fault |-> f]

trie_search(item, key) == HOTLookup(item.hot, key)

\* the search with the key comparison left out
sing_search_noVerify(item, key, ccpl) == item.kv

sing_search(item, key, ccpl) ==
    IF verify(item.kv, key, ccpl) THEN item.kv ELSE NULL

cnod_search(item, key) == cnode_search(item, key)

trie_insert(node, ckey, cval) ==
    LET r == HOTInsert(node.hot, ckey, cval)
    IN  Outcome(TrieItem(r.hot), r.result, "none")

\* the two-entry compact node that replaces a single entry
\* the two-entry compact node of sing_insert with the new key always first
singSplit_newFirst(node, ckey, cval, ccpl) ==
    CNodItem(ccpl, <<new_hash_kv(KV(ckey, cval)), new_hash_kv(node.kv)>>)

singSplit(node, ckey, cval, ccpl) ==
    IF keycmp(node.kv, ckey, ccpl) > 0
    THEN CNodItem(ccpl, <<new_hash_kv(node.kv), new_hash_kv(KV(ckey, cval))>>)
    ELSE CNodItem(ccpl, <<new_hash_kv(KV(ckey, cval)), new_hash_kv(node.kv)>>)

\* the insert that stores the value of a key it finds present
sing_insert_overwrite(node, ckey, cval, ccpl) ==
    IF keycmp(node.kv, ckey, ccpl) = 0
    THEN Outcome(SingItem(KV(ckey, cval)), FALSE, "none")
    ELSE Outcome(singSplit(node, ckey, cval, ccpl), TRUE, "none")

sing_insert(node, ckey, cval, ccpl) ==
    IF keycmp(node.kv, ckey, ccpl) = 0
    THEN Outcome(node, FALSE, "none")
    ELSE Outcome(singSplit(node, ckey, cval, ccpl), TRUE, "none")

cnod_insert(node, ckey, cval, hpt, pmss) ==
    IF has_room(node)
    THEN LET r == cnode_withRoom_insert(node, ckey, cval)
         IN  Outcome(r.cnode, r.result, "none")
    ELSE LET x == try_extract_keys_if_valid_insert(node, ckey, cval)
         IN  IF x.ok
             THEN Outcome(pmss_bulk(x.kvs, 0, CNODE_SIZE + 1, node.ccpl, hpt, pmss, -1),
                          TRUE, "none")
             ELSE Outcome(node, FALSE, "none")

trie_upsert(node, ckey, cval) ==
    LET r == HOTUpsert(node.hot, ckey, cval)
    IN  Outcome(TrieItem(r.hot), IF r.result # NULL THEN r.result.v ELSE 0, "none")

sing_upsert(node, ckey, cval, ccpl) ==
    IF keycmp(node.kv, ckey, ccpl) = 0
    THEN Outcome([node EXCEPT !.kv.v = cval], node.kv.v, "none")
    ELSE Outcome(singSplit(node, ckey, cval, ccpl), 0, "none")

\* In the full node a returned 0 is taken for "not found": pmss_bulk then
\* reads CNODE_SIZE + 1 records of kvs, which is empty when the key was found
\* with the stored value 0
cnod_upsert(node, ckey, cval, hpt, pmss) ==
    IF has_room(node)
    THEN LET r == cnode_withRoom_upsert(node, ckey, cval)
         IN  Outcome(r.cnode, r.result, "none")
    ELSE LET x == try_extract_keys_if_valid_upsert(node, ckey, cval)
         IN  IF x.res = 0
             THEN IF Len(x.kvs) < CNODE_SIZE + 1
                  THEN Outcome(x.cnode, 0, "ub")
                  ELSE Outcome(pmss_bulk(x.kvs, 0, CNODE_SIZE + 1, node.ccpl,
                                         hpt, pmss, -1), 0, "none")
             ELSE Outcome(x.cnode, x.res, "none")

\* the remove with the key comparison left out
sing_remove_noCompare(node, ckey, ccpl) == Outcome(NullItem, TRUE, "none")

sing_remove(node, ckey, ccpl) ==
    IF keycmp(node.kv, ckey, ccpl) = 0
    THEN Outcome(NullItem, TRUE, "none")
    ELSE Outcome(node, FALSE, "none")

trie_remove(node, ckey) ==
    LET r == HOTRemove(node.hot, ckey)
    IN  Outcome(TrieItem(r.hot), r.result, "none")

cnod_remove(node, ckey) ==
    IF more_than_2(node)
    THEN LET r == cnode_withRoom_remove(node, ckey)
         IN  Outcome(r.cnode, r.result, "none")
    ELSE IF key_cnt(node) # 2
         THEN Outcome(node, FALSE, "assert")
         ELSE LET entry == cnode_degrade(node, ckey)
              IN  IF entry = NULL THEN Outcome(node, FALSE, "none")
                  ELSE Outcome(SingItem(entry), TRUE, "none")

\* ------------------------------------------------------------------------
\* Walking the tree.  A node is named by its path: the positions taken from
\* the root through the item arrays above it.
\* ------------------------------------------------------------------------
RECURSIVE ItemAtPath(_, _)
ItemAtPath(item, path) ==
    IF path = <<>> THEN item
    ELSE ItemAtPath(ItemAt(item, Head(path)), Tail(path))

\* the item array with position p overwritten
setSlot(items, p, it) ==
    IF it = NullItem
    THEN [q \in DOMAIN items \ {p} |-> items[q]]
    ELSE [q \in DOMAIN items \cup {p} |-> IF q = p THEN it ELSE items[q]]

RECURSIVE SetAt(_, _, _)
\* the tree with the item at `path` overwritten
SetAt(item, path, new) ==
    IF path = <<>> THEN new
    ELSE [item EXCEPT !.items =
             setSlot(item.items, Head(path),
                     SetAt(ItemAt(item, Head(path)), Tail(path), new))]

RECURSIVE descend(_, _, _, _, _, _)
\* the loop of _lookup, _insert, _remove, _upsert and _find: through the
\* model nodes down to a terminal item; ccpls[i] is the ccpl recorded with
\* the i-th model node
descend(item, key, ccpl, hpt, path, ccpls) ==
    IF item.t = ITYP_Mult
    THEN LET pp == predictPos(item, key, ccpl, hpt)
         IN  descend(ItemAt(item, pp.pos), key, pp.ccpl, hpt,
                     Append(path, pp.pos), Append(ccpls, ccpl))
    ELSE [item |-> item, ccpl |-> ccpl, path |-> path, ccpls |-> ccpls]

RECURSIVE extractRange(_, _, _)
RECURSIVE recursive_extract(_)
\* the records below the positions lo..hi of a model node, in array order
extractRange(node, lo, hi) ==
    IF lo > hi THEN <<>>
    ELSE IF lo = hi THEN recursive_extract(ItemAt(node, lo))
    ELSE LET mid == (lo + hi) \div 2
         IN  extractRange(node, lo, mid) \o extractRange(node, mid + 1, hi)

extract_inner_node(node) == extractRange(node, 0, node.item_array_length - 1)

recursive_extract(item) ==
    IF item.t = ITYP_Trie THEN item.hot
    ELSE IF item.t = ITYP_Sing THEN <<item.kv>>
    ELSE IF item.t = ITYP_CNod THEN extract_cnode(item)
    ELSE IF item.t = ITYP_Mult THEN extract_inner_node(item)
    ELSE <<>>

RECURSIVE change_num(_, _, _, _, _, _, _)
\* PathStack::change_num from stack entry i on: the tree afterwards and the
\* fault raised.  A resize reads cnt records of the extracted list.
change_num(root, path, ccpls, i, cnt, hpt, pmss) ==
    IF i > Len(path) THEN [root |-> root, fault |-> "none"]
    ELSE LET here == SubSeq(path, 1, i - 1)
             node == ItemAtPath(root, here)
             num == IF cnt > 0 THEN node.num_of_keys + 1 ELSE node.num_of_keys - 1
             counted == [node EXCEPT !.num_of_keys = num]
             kvs == recursive_extract(counted)
         IN  IF num >= 2 * node.item_array_length \/ 4 * num <= node.item_array_length
             THEN IF num > Len(kvs)
                  THEN [root |-> SetAt(root, here, counted), fault |-> "ub"]
                  ELSE [root |-> SetAt(root, here,
                                       pmss_bulk(kvs, 0, num, ccpls[i], hpt, pmss, -1)),
                        fault |-> "none"]
             ELSE change_num(SetAt(root, here, counted), path, ccpls, i + 1,
                             cnt, hpt, pmss)

RECURSIVE countRange(_, _, _, _)
RECURSIVE countItems(_, _)
\* the number of items of variant t below the positions lo..hi of a model node
countRange(node, lo, hi, t) ==
    IF lo > hi THEN 0
    ELSE IF lo = hi THEN countItems(ItemAt(node, lo), t)
    ELSE LET mid == (lo + hi) \div 2
         IN  countRange(node, lo, mid, t) + countRange(node, mid + 1, hi, t)

\* the number of items of variant t in the subtree of item, as the walk of
\* recursive_extract meets them
countItems(item, t) ==
    IF item.t = ITYP_Mult
    THEN (IF t = ITYP_Mult THEN 1 ELSE 0)
         + countRange(item, 0, item.item_array_length - 1, t)
    ELSE IF item.t = t THEN 1 ELSE 0

\* ------------------------------------------------------------------------
\* The callers' data: key batches, trained tables and keys to operate on
\* ------------------------------------------------------------------------
\* the alphabet of the base keys and their length
NumCh == 6
BaseLen == 4
BaseSize == NumCh ^ BaseLen

\* digit j (1-based) of i written with BaseLen digits to the base NumCh
Dig(i, j) == ((i \div (NumCh ^ (BaseLen - j))) % NumCh) + 1

\* every key of BaseLen characters, in ascending order
BaseKeys == [i \in 1..BaseSize |-> [j \in 1..BaseLen |-> Dig(i - 1, j)]]

\* first index in lo..hi whose key is not below k, or hi + 1
RECURSIVE keyLowerBound(_, _, _, _)
keyLowerBound(keys, k, lo, hi) ==
    IF lo > hi THEN lo
    ELSE LET mid == (lo + hi) \div 2
         IN  IF ustrcmp(keys[mid], k) >= 0 THEN keyLowerBound(keys, k, lo, mid - 1)
             ELSE keyLowerBound(keys, k, mid + 1, hi)

\* the sorted sequence keys with the sorted block more put in place; the
\* keys of more share a prefix that separates them from the keys around
MergeKeys(keys, more) ==
    LET p == keyLowerBound(keys, more[1], 1, Len(keys))
    IN  SubSeq(keys, 1, p - 1) \o more \o SubSeq(keys, p, Len(keys))

\* the keys pfx.x.y for x in 1..nx and y in 1..ny, in ascending order
Cluster(pfx, nx, ny) ==
    [i \in 1..(nx * ny) |-> pfx \o <<((i - 1) \div ny) + 1, ((i - 1) % ny) + 1>>]

ClusterA == Cluster(<<3, 3, 3, 3>>, 6, 3)
ClusterB == Cluster(<<3, 3, 3, 4>>, 3, 5)
ClusterC == Cluster(<<5, 5, 5, 5>>, 6, 6)

\* the key arrays handed to bulkload
BatchKeys ==
    [full     |-> MergeKeys(MergeKeys(MergeKeys(BaseKeys, ClusterA), ClusterB), ClusterC),
     exact    |-> SubSeq(BaseKeys, 1, min_bulk_load_size),
     shared   |-> [i \in 1..min_bulk_load_size |-> <<2>> \o BaseKeys[i]],
     small    |-> SubSeq(BaseKeys, 1, min_bulk_load_size - 1),
     unsorted |-> [BaseKeys EXCEPT ![BaseSize] = BaseKeys[BaseSize - 1],
                                   ![BaseSize - 1] = BaseKeys[BaseSize]],
     repeated |-> [BaseKeys EXCEPT ![BaseSize] = BaseKeys[BaseSize - 1]]]

BatchIds == DOMAIN BatchKeys

\* the value array: the i-th key comes with value i
BatchKVs == [b \in BatchIds |-> [i \in 1..Len(BatchKeys[b]) |-> KV(BatchKeys[b][i], i)]]

\* tables a caller may hand to bulkload: none (the index trains its own), a
\* fresh table, and tables trained on other data sets
OtherData == MergeKeys(BaseKeys, Cluster(<<1, 1, 1, 5>>, 6, 6))

HptIds == {"none", "fresh", "other"}

HptArg(h) ==
    IF h = "none" THEN NULL
    ELSE IF h = "fresh" THEN HPT_new
    ELSE train(OtherData)

\* front-char buckets the byte in front of a key buffer may fall in
FrontBuckets == {0, 1}

\* the policies new PMSS() may stand for: never a model node, always one
PmssPolicies ==
    [never |-> [size |-> 0, gpkl |-> 0],
     always |-> [size |-> 0, gpkl |-> 100 * FixOne]]

\* the bulkload calls: the batch, the table argument and the front-char
\* bucket of the first key, with the policy the build works under
BulkArgs ==
    {[b |-> "full", h |-> "other", fb |-> 0, p |-> "always"],
     [b |-> "full", h |-> "none", fb |-> 0, p |-> "always"],
     [b |-> "full", h |-> "fresh", fb |-> 0, p |-> "always"],
     [b |-> "exact", h |-> "none", fb |-> 1, p |-> "never"],
     [b |-> "shared", h |-> "none", fb |-> 0, p |-> "always"],
     [b |-> "small", h |-> "none", fb |-> 0, p |-> "always"],
     [b |-> "unsorted", h |-> "none", fb |-> 0, p |-> "always"],
     [b |-> "repeated", h |-> "other", fb |-> 0, p |-> "always"]}

\* the element of a one-element set; with S = {e : x \in {v}} it names the
\* value v by x in e
The(S) == CHOOSE x \in S : TRUE

\* ------------------------------------------------------------------------
\* The LITS facade (lits_iter): the private operations as functions of the
\* tree, giving the tree afterwards, the returned value and the fault
\* ------------------------------------------------------------------------
LITS_lookup(root, key, hpt) ==
    The({IF d.item.t = ITYP_Trie THEN trie_search(d.item, key)
         ELSE IF d.item.t = ITYP_Sing THEN sing_search(d.item, key, d.ccpl)
         ELSE IF d.item.t = ITYP_CNod THEN cnod_search(d.item, key)
         ELSE NULL
         : d \in {descend(root, key, 0, hpt, <<>>, <<>>)}})

\* the tail shared by _insert, _remove and _upsert: the terminal outcome o
\* is put in place and, when `counted`, change_num(cnt) walks the stack
finishOp(root, d, o, counted, cnt, hpt, pmss) ==
    IF Len(d.path) > MAX_STACK
    THEN [root |-> root, result |-> o.result, fault |-> "ub"]
    ELSE The({IF o.fault # "none" \/ ~counted
              THEN [root |-> placed, result |-> o.result, fault |-> o.fault]
              ELSE The({[root |-> walked.root, result |-> o.result,
                         fault |-> walked.fault]
                        : walked \in {change_num(placed, d.path, d.ccpls, 1, cnt,
                                                  hpt, pmss)}})
              : placed \in {SetAt(root, d.path, o.item)}})

LITS_insert(root, key, val, hpt, pmss) ==
    The({The({finishOp(root, d, o, o.result = TRUE, 1, hpt, pmss)
              : o \in {IF d.item.t = ITYP_Trie THEN trie_insert(d.item, key, val)
                       ELSE IF d.item.t = ITYP_Sing
                       THEN sing_insert(d.item, key, val, d.ccpl)
                       ELSE IF d.item.t = ITYP_CNod
                       THEN cnod_insert(d.item, key, val, hpt, pmss)
                       ELSE Outcome(SingItem(KV(key, val)), TRUE, "none")}})
         : d \in {descend(root, key, 0, hpt, <<>>, <<>>)}})

LITS_remove(root, key, hpt, pmss) ==
    The({The({finishOp(root, d, o, o.result = TRUE, -1, hpt, pmss)
              : o \in {IF d.item.t = ITYP_Trie THEN trie_remove(d.item, key)
                       ELSE IF d.item.t = ITYP_Sing
                       THEN sing_remove(d.item, key, d.ccpl)
                       ELSE IF d.item.t = ITYP_CNod THEN cnod_remove(d.item, key)
                       ELSE Outcome(NullItem, FALSE, "none")}})
         : d \in {descend(root, key, 0, hpt, <<>>, <<>>)}})

LITS_upsert(root, key, val, hpt, pmss) ==
    The({The({finishOp(root, d, o, o.result = 0, 1, hpt, pmss)
              : o \in {IF d.item.t = ITYP_Trie THEN trie_upsert(d.item, key, val)
                       ELSE IF d.item.t = ITYP_Sing
                       THEN sing_upsert(d.item, key, val, d.ccpl)
                       ELSE IF d.item.t = ITYP_CNod
                       THEN cnod_upsert(d.item, key, val, hpt, pmss)
                       ELSE Outcome(SingItem(KV(key, val)), 0, "none")}})
         : d \in {descend(root, key, 0, hpt, <<>>, <<>>)}})

\* LITS::_destroy: the blocks it releases, by kind.  delete hpt and delete
\* pmss; recursive_extract deletes every inner node and every compact node
\* and runs the destructor of every sub-trie; self_delete frees the extracted
\* records.  No statement deletes the HOTIndex object pmss_bulk allocates
\* for a sub-trie (the handle).
LITS_destroy(root) ==
    [hpt |-> 1, pmss |-> 1,
     inner |-> countItems(root, ITYP_Mult),
     cnode |-> countItems(root, ITYP_CNod),
     trie |-> countItems(root, ITYP_Trie),
     handle |-> 0,
     kv |-> Len(recursive_extract(root))]

\* the blocks the instance has allocated and not released, by kind: the
\* table when _bulkload made it (own), the policy, one block for every inner
\* node and compact node, the nodes and the handle of every sub-trie, and
\* one record for every key
Allocated(root, own) ==
    [hpt |-> IF own THEN 1 ELSE 0, pmss |-> 1,
     inner |-> countItems(root, ITYP_Mult),
     cnode |-> countItems(root, ITYP_CNod),
     trie |-> countItems(root, ITYP_Trie),
     handle |-> countItems(root, ITYP_Trie),
     kv |-> Len(recursive_extract(root))]

\* ------------------------------------------------------------------------
\* litsIter (lits_iter).  Pointers into the tree are kept as paths: a frame
\* of the recorded path names its node by the node's path from the root.
\* depth is Len(path) - 1.
\* ------------------------------------------------------------------------
litsIter ==
    [is_valid |-> TRUE, in_sub_trie |-> FALSE, in_cnode |-> FALSE, is_end |-> FALSE,
     subtrie_iter |-> END_ITERATOR, coded_subtrie |-> <<>>, data |-> NULL,
     path |-> <<>>]

\* one info entry: item_array or kv_array (cn), array_len, array_idx
Frame(node, cn, len, idx) == [node |-> node, cn |-> cn, len |-> len, idx |-> idx]

IterOut(it, f) == [it |-> it, fault |-> f]

MinOf(S) == CHOOSE i \in S : \A j \in S : i <= j

\* the cursor on the item at position i of the model node at path p, whose
\* frame is already on top of the path: the tail shared by FIRST and ADVANCE
RECURSIVE FIRST(_, _, _)
enterItem(root, it, p, i) ==
    LET cur == ItemAtPath(root, Append(p, i))
    IN  IF cur.t = ITYP_Sing THEN IterOut([it EXCEPT !.data = cur.kv], "none")
        ELSE IF cur.t = ITYP_Trie
        THEN IterOut([it EXCEPT !.in_sub_trie = TRUE,
                                !.coded_subtrie = Append(p, i),
                                !.subtrie_iter = HOTBegin(cur.hot)], "none")
        ELSE FIRST(root, it, Append(p, i))

\* litsIter::FIRST(father), father the item at path p.  Anything but a
\* compact node is read as an inner node.
FIRST(root, it, p) ==
    LET father == ItemAtPath(root, p)
    IN  IF father.t = ITYP_CNod
        THEN IF Len(it.path) - 1 >= MAX_STACK - 1 THEN IterOut(it, "assert")
             ELSE IF key_cnt(father) = 0 THEN IterOut(it, "ub")
             ELSE IterOut([it EXCEPT !.in_cnode = TRUE,
                                     !.path = Append(@, Frame(p, TRUE, key_cnt(father), 0)),
                                     !.data = father.data[1].kv], "none")
        ELSE IF father.t # ITYP_Mult THEN IterOut(it, "ub")
        ELSE IF DOMAIN father.items = {} THEN IterOut(it, "assert")
        ELSE IF Len(it.path) - 1 >= MAX_STACK - 1 THEN IterOut(it, "assert")
        ELSE LET i == MinOf(DOMAIN father.items)
             IN  enterItem(root,
                           [it EXCEPT !.path = Append(@, Frame(p, FALSE,
                                                       father.item_array_length, i))],
                           p, i)

\* litsIter::ADVANCE: ok is the returned flag
ADVANCE(root, it) ==
    LET d == Len(it.path)
        cli == it.path[d]
        node == ItemAtPath(root, cli.node)
    IN  IF it.in_cnode
        THEN IF cli.idx + 1 >= cli.len
             THEN [it |-> [it EXCEPT !.in_cnode = FALSE, !.path[d].idx = cli.idx + 1],
                   ok |-> FALSE, fault |-> "none"]
             ELSE [it |-> [it EXCEPT !.path[d].idx = cli.idx + 1,
                                     !.data = node.data[cli.idx + 2].kv],
                   ok |-> TRUE, fault |-> "none"]
        ELSE LET rest == {i \in DOMAIN node.items : i > cli.idx}
                 i == MinOf(rest)
                 f == enterItem(root, [it EXCEPT !.path[d].idx = i], cli.node, i)
             IN  IF rest = {} THEN [it |-> it, ok |-> FALSE, fault |-> "none"]
                 ELSE [it |-> f.it, ok |-> TRUE, fault |-> f.fault]

\* while (depth >= 0) { if (ADVANCE()) return; depth = depth - 1; }
\* is_end = true;
RECURSIVE advanceLoop(_, _)
advanceLoop(root, it) ==
    IF it.path = <<>> THEN IterOut([it EXCEPT !.is_end = TRUE], "none")
    ELSE LET a == ADVANCE(root, it)
         IN  IF a.ok \/ a.fault # "none" THEN IterOut(a.it, a.fault)
             ELSE advanceLoop(root, [a.it EXCEPT !.path = SubSeq(@, 1, Len(@) - 1)])

\* litsIter::next.  Stepping the end iterator of a sub-trie is undefined.
next(root, it) ==
    IF it.in_sub_trie
    THEN LET hot == ItemAtPath(root, it.coded_subtrie).hot
             n == IF it.subtrie_iter < Len(hot) THEN it.subtrie_iter + 1
                  ELSE END_ITERATOR
         IN  IF it.subtrie_iter = END_ITERATOR THEN IterOut(it, "ub")
             ELSE IF n = END_ITERATOR
             THEN advanceLoop(root, [it EXCEPT !.subtrie_iter = n, !.in_sub_trie = FALSE])
             ELSE IterOut([it EXCEPT !.subtrie_iter = n], "none")
    ELSE advanceLoop(root, it)

\* litsIter::getKV: the record under the cursor, NULL for a null data
\* pointer; reading through the end iterator of a sub-trie is undefined
getKV(root, it) ==
    IF ~it.in_sub_trie THEN [kv |-> it.data, fault |-> "none"]
    ELSE IF it.subtrie_iter = END_ITERATOR THEN [kv |-> NULL, fault |-> "ub"]
    ELSE [kv |-> ItemAtPath(root, it.coded_subtrie).hot[it.subtrie_iter],
          fault |-> "none"]

\* the frames recordPath_find pushes along the descent d
findFrames(root, d) ==
    [j \in 1..Len(d.path) |->
        Frame(SubSeq(d.path, 1, j - 1), FALSE,
              ItemAtPath(root, SubSeq(d.path, 1, j - 1)).item_array_length, d.path[j])]

trie_find(item, p, key, it) ==
    LET hot_iter == HOTFind(item.hot, key)
    IN  IF hot_iter = END_ITERATOR THEN IterOut([it EXCEPT !.is_valid = FALSE], "none")
        ELSE IterOut([it EXCEPT !.in_sub_trie = TRUE, !.coded_subtrie = p,
                                !.subtrie_iter = hot_iter], "none")

sing_find(item, it) == IterOut([it EXCEPT !.data = item.kv], "none")

cnod_find(item, p, key, it) ==
    LET i == cnodeMatch(item, key)
    IN  IF i = 0 THEN IterOut([it EXCEPT !.is_valid = FALSE], "none")
        ELSE IF Len(it.path) - 1 >= MAX_STACK - 1 THEN IterOut(it, "assert")
        ELSE IterOut([it EXCEPT !.in_cnode = TRUE,
                                !.path = Append(@, Frame(p, TRUE, key_cnt(item), i - 1)),
                                !.data = item.data[i].kv], "none")

\* LITS::_find
LITS_find(root, key, hpt) ==
    The({The({IF Len(d.path) > MAX_STACK THEN IterOut(litsIter, "assert")
              ELSE IF d.item.t = ITYP_Trie THEN trie_find(d.item, d.path, key, it)
              ELSE IF d.item.t = ITYP_Sing THEN sing_find(d.item, it)
              ELSE IF d.item.t = ITYP_CNod THEN cnod_find(d.item, d.path, key, it)
              ELSE IterOut([it EXCEPT !.is_valid = FALSE], "none")
              : it \in {[litsIter EXCEPT !.path = findFrames(root, d)]}})
         : d \in {descend(root, key, 0, hpt, <<>>, <<>>)}})

\* LITS::_begin
LITS_begin(root) == FIRST(root, litsIter, <<>>)

\* ------------------------------------------------------------------------
\* The state of one LITS instance and of its caller
\* ------------------------------------------------------------------------
\* keys the caller operates on after the build, and the values it stores
OpKeys ==
    {<<1, 1, 1, 1>>, <<1, 1, 1, 1, 1>>,
     <<3, 3, 3, 3, 1, 1>>, <<3, 3, 3, 3, 6, 6>>,
     <<3, 3, 3, 4, 2, 2>>, <<3, 3, 3, 4, 4, 1>>,
     <<5, 5, 5, 5, 1, 1>>, <<5, 5, 5, 5, 5, 1>>}

MaxVal == 7
OpVals == {0, MaxVal}

\* calls made on a built instance in one run
MaxOps == 2

\* keys removed one after the other by a caller that clears a key range:
\* the key <<3, 3, 3, 3>> and the keys of ClusterA
DrainKeys == <<<<3, 3, 3, 3>>>> \o ClusterA

\* keys such a caller starts its scans at, and the length of a scan
ScanKeys == {<<3, 3, 3, 2>>, <<3, 3, 3, 3, 6, 3>>}
MaxScan == 3

VARIABLES
    hasBeenBuild,   \* LITS::hasBeenBuild
    hpt,            \* LITS::hpt, the table it points to
    pmss,           \* LITS::pmss, the policy it points to
    root,           \* LITS::root
    fault,          \* "none", or how the process went wrong
    ret,            \* the last call and what it returned
    bulk,           \* the arguments of the bulkload that built the index
    ref,            \* the reference map's entries for the keys written since
    freed,          \* destroy has released the index's memory
    iter,           \* the caller's litsIter, NULL when it holds none
    scan,           \* how the caller got iter and the next() calls made on it
    nops,           \* calls made since the build
    drained,        \* keys of DrainKeys removed so far
    bulk_stack,     \* groups pushed for a bulk load and not yet built
    walk            \* the descent of a call in progress, one model node a step

vars == <<hasBeenBuild, hpt, pmss, root, fault, ret, bulk, ref, freed, iter, scan,
          nops, drained, bulk_stack, walk>>

Absent == 0 - 1

\* index of key k in the sorted key array, or 0
keyIndex(keys, k) ==
    LET i == keyLowerBound(keys, k, 1, Len(keys))
    IN  IF i <= Len(keys) /\ ustrcmp(keys[i], k) = 0 THEN i ELSE 0

\* the value the reference map holds for k, or Absent
RefVal(k) ==
    IF k \in DOMAIN ref THEN ref[k]
    ELSE IF keyIndex(BatchKeys[bulk.b], k) # 0
         THEN BatchKVs[bulk.b][keyIndex(BatchKeys[bulk.b], k)].v
         ELSE Absent

RefPut(k, v) == [x \in DOMAIN ref \cup {k} |-> IF x = k THEN v ELSE ref[x]]

\* the sorted sequence keys with the keys of S put in place
RECURSIVE AddKeys(_, _)
AddKeys(keys, S) ==
    IF S = {} THEN keys
    ELSE LET k == CHOOSE x \in S : TRUE
             p == keyLowerBound(keys, k, 1, Len(keys))
         IN  AddKeys(SubSeq(keys, 1, p - 1) \o <<k>> \o SubSeq(keys, p, Len(keys)),
                     S \ {k})

\* the keys of the reference map, in ascending order
RefKeys ==
    LET base == BatchKeys[bulk.b]
        kept == SelectSeq(base, LAMBDA k : k \notin DOMAIN ref)
    IN  AddKeys(kept, {k \in DOMAIN ref : ref[k] # Absent})

\* the value a lookup result stands for
ValOf(e) == IF e = NULL THEN Absent ELSE e.v

Call(op, key, val, result) == [op |-> op, key |-> key, val |-> val, result |-> result]

\* what the caller sees of an iterator: valid(), not_finish() and, when
\* both hold, the key of getKV()
View(rt, it) ==
    [valid |-> it.is_valid, finish |-> it.is_end,
     key |-> IF it.is_valid /\ ~it.is_end /\ getKV(rt, it).kv # NULL
             THEN getKV(rt, it).kv.k ELSE <<>>]

\* the fault of the read of getKV()->k the caller makes on a valid,
\* unfinished iterator
ReadFault(rt, it) ==
    IF ~it.is_valid \/ it.is_end THEN "none"
    ELSE IF getKV(rt, it).fault # "none" THEN getKV(rt, it).fault
    ELSE IF getKV(rt, it).kv = NULL THEN "ub"
    ELSE "none"

Init ==
    /\ hasBeenBuild = FALSE
    /\ hpt = NULL
    /\ pmss = NULL
    /\ root = NullItem
    /\ fault = "none"
    /\ ret = Call("new", <<>>, 0, TRUE)
    /\ bulk = NULL
    /\ ref = [x \in {} |-> 0]
    /\ freed = FALSE
    /\ iter = NULL
    /\ scan = NULL
    /\ nops = 0
    /\ drained = 0
    /\ bulk_stack = {}
    /\ walk = NULL

\* a failed RT_ASSERT aborts the process
Trap(op, key, val) ==
    /\ fault' = "assert"
    /\ ret' = Call(op, key, val, "trap")
    /\ UNCHANGED <<hasBeenBuild, hpt, pmss, root, bulk, ref, freed, iter, scan>>

\* a call on an instance whose memory destroy has released
UseAfterFree(op, key, val) ==
    /\ fault' = "ub"
    /\ ret' = Call(op, key, val, "ub")
    /\ UNCHANGED <<hasBeenBuild, hpt, pmss, root, bulk, ref, freed, iter, scan>>

\* LITS::bulkload and _bulkload
bulkload(a) ==
    IF hasBeenBuild
    THEN Trap("bulkload", a, 0)
    ELSE IF Len(BatchKeys[a.b]) < min_bulk_load_size
            \/ ~checkSortedUnique(BatchKeys[a.b])
    THEN /\ ret' = Call("bulkload", a, 0, FALSE)
         /\ UNCHANGED <<hasBeenBuild, hpt, pmss, root, fault, bulk, ref, freed,
                        iter, scan>>
    ELSE /\ hpt' = IF a.h # "none" THEN HptArg(a.h)
                   ELSE train(BatchKeys[a.b])
         /\ pmss' = PmssPolicies[a.p]
         /\ root' = pmss_bulk(BatchKVs[a.b], 0, Len(BatchKVs[a.b]), 0,
                              hpt', pmss', a.fb)
         /\ hasBeenBuild' = TRUE
         /\ bulk' = a
         /\ ret' = Call("bulkload", a, 0, TRUE)
         /\ UNCHANGED <<fault, ref, freed, iter, scan>>

\* lookup without RT_ASSERT(hasBeenBuild)
lookup_noAssert(k) ==
    /\ ret' = Call("lookup", k, 0, ValOf(LITS_lookup(root, k, hpt)))
    /\ UNCHANGED <<hasBeenBuild, hpt, pmss, root, fault, bulk, ref, freed,
                   iter, scan>>

\* LITS::lookup and _lookup
lookup(k) ==
    IF ~hasBeenBuild THEN Trap("lookup", k, 0)
    ELSE IF freed THEN UseAfterFree("lookup", k, 0)
    ELSE /\ ret' = Call("lookup", k, 0, ValOf(LITS_lookup(root, k, hpt)))
         /\ UNCHANGED <<hasBeenBuild, hpt, pmss, root, fault, bulk, ref, freed,
                        iter, scan>>

\* the common part of the mutating calls: r is the outcome of the private
\* operation, m the reference map afterwards.  A litsIter does not outlive
\* a change of the index.
Mutate(op, k, v, r, m) ==
    /\ root' = r.root
    /\ fault' = r.fault
    /\ ret' = Call(op, k, v, r.result)
    /\ ref' = m
    /\ iter' = NULL
    /\ scan' = NULL
    /\ UNCHANGED <<hasBeenBuild, hpt, pmss, bulk, freed>>

\* LITS::insert and _insert
insert(k, v) ==
    IF ~hasBeenBuild THEN Trap("insert", k, v)
    ELSE IF freed THEN UseAfterFree("insert", k, v)
    ELSE \E r \in {LITS_insert(root, k, v, hpt, pmss)} :
            Mutate("insert", k, v, r, IF RefVal(k) = Absent THEN RefPut(k, v) ELSE ref)

\* LITS::upsert and _upsert
upsert(k, v) ==
    IF ~hasBeenBuild THEN Trap("upsert", k, v)
    ELSE IF freed THEN UseAfterFree("upsert", k, v)
    ELSE \E r \in {LITS_upsert(root, k, v, hpt, pmss)} :
            Mutate("upsert", k, v, r, RefPut(k, v))

\* LITS::remove and _remove
remove(k) ==
    IF ~hasBeenBuild THEN Trap("remove", k, 0)
    ELSE IF freed THEN UseAfterFree("remove", k, 0)
    ELSE \E r \in {LITS_remove(root, k, hpt, pmss)} :
            Mutate("remove", k, 0, r,
                   IF RefVal(k) = Absent THEN ref ELSE RefPut(k, Absent))

\* LITS::destroy and _destroy: the table, the policy and every node and
\* record are released; root and hasBeenBuild stay as they are.  The result
\* of the call stands for the blocks it released.
destroy ==
    IF ~hasBeenBuild THEN Trap("destroy", <<>>, 0)
    ELSE IF freed THEN UseAfterFree("destroy", <<>>, 0)
    ELSE /\ freed' = TRUE
         /\ ret' = Call("destroy", <<>>, 0, LITS_destroy(root))
         /\ iter' = NULL
         /\ scan' = NULL
         /\ UNCHANGED <<hasBeenBuild, hpt, pmss, root, fault, bulk, ref>>

\* the caller takes the iterator f.it a call returned and, when it is valid
\* and unfinished, reads the key under it
Cursor(op, k, f, n) ==
    /\ iter' = f.it
    /\ scan' = [op |-> op, key |-> k, n |-> n]
    /\ fault' = IF f.fault # "none" THEN f.fault ELSE ReadFault(root, f.it)
    /\ ret' = Call(IF n = 0 THEN op ELSE "next", k, 0,
                   IF fault' = "none" THEN View(root, f.it) ELSE fault')
    /\ UNCHANGED <<hasBeenBuild, hpt, pmss, root, bulk, ref, freed>>

\* LITS::find and _find
find(k) ==
    IF ~hasBeenBuild THEN Trap("find", k, 0)
    ELSE IF freed THEN UseAfterFree("find", k, 0)
    ELSE \E f \in {LITS_find(root, k, hpt)} : Cursor("find", k, f, 0)

\* LITS::begin and _begin
begin ==
    IF ~hasBeenBuild THEN Trap("begin", <<>>, 0)
    ELSE IF freed THEN UseAfterFree("begin", <<>>, 0)
    ELSE \E f \in {LITS_begin(root)} : Cursor("begin", <<>>, f, 0)

\* litsIter::next on the caller's iterator
iterNext ==
    /\ iter # NULL
    /\ iter.is_valid
    /\ ~iter.is_end
    /\ \E f \in {next(root, iter)} : Cursor(scan.op, scan.key, f, scan.n + 1)

\* ------------------------------------------------------------------------
\* A caller that makes up to MaxOps calls on the index it built
\* ------------------------------------------------------------------------
Bulkload(a) == fault = "none" /\ bulkload(a) /\ UNCHANGED <<nops, drained, bulk_stack, walk>>

Counted == fault = "none" /\ nops < MaxOps /\ nops' = nops + 1
           /\ UNCHANGED <<drained, bulk_stack, walk>>

Lookup(k) == Counted /\ lookup(k)
Insert(k, v) == Counted /\ insert(k, v)
Upsert(k, v) == Counted /\ upsert(k, v)
Remove(k) == Counted /\ remove(k)
Destroy == Counted /\ destroy
Find(k) == Counted /\ find(k)
Begin == Counted /\ begin
IterNext == Counted /\ iterNext

Next ==
    \/ \E a \in BulkArgs : Bulkload(a)
    \/ \E k \in OpKeys : Lookup(k)
    \/ \E k \in OpKeys, v \in OpVals : Insert(k, v)
    \/ \E k \in OpKeys, v \in OpVals : Upsert(k, v)
    \/ \E k \in OpKeys : Remove(k)
    \/ Destroy
    \/ \E k \in OpKeys : Find(k)
    \/ Begin
    \/ IterNext

Spec == Init /\ [][Next]_vars

\* ------------------------------------------------------------------------
\* A caller that clears a key range and scans across it
\* ------------------------------------------------------------------------
DrainArg == [b |-> "full", h |-> "other", fb |-> 0, p |-> "always"]

DrainBuild == fault = "none" /\ ~hasBeenBuild /\ bulkload(DrainArg)
              /\ UNCHANGED <<nops, drained, bulk_stack, walk>>

DrainStep ==
    /\ fault = "none"
    /\ hasBeenBuild
    /\ drained < Len(DrainKeys)
    /\ remove(DrainKeys[drained + 1])
    /\ drained' = drained + 1
    /\ UNCHANGED <<nops, bulk_stack, walk>>

ScanFind(k) == fault = "none" /\ hasBeenBuild /\ iter = NULL /\ find(k)
               /\ UNCHANGED <<nops, drained, bulk_stack, walk>>

ScanNext == fault = "none" /\ iter # NULL /\ scan.n < MaxScan /\ iterNext
            /\ UNCHANGED <<nops, drained, bulk_stack, walk>>

NextDrain ==
    \/ DrainBuild
    \/ DrainStep
    \/ \E k \in ScanKeys : ScanFind(k)
    \/ ScanNext

SpecDrain == Init /\ [][NextDrain]_vars

\* ------------------------------------------------------------------------
\* A caller that runs one of a few workloads, call after call, on the index
\* it built: nops names the workload and drained counts the calls made
\* ------------------------------------------------------------------------
ScriptCall(op, k, v) == [op |-> op, k |-> k, v |-> v]

\* removes that take the node of the keys <<5,5,5,5,..>> below a quarter of
\* its length
ShrinkLen == 14
ShrinkCalls == [i \in 1..ShrinkLen |-> ScriptCall("remove", ClusterC[i], 0)]

\* the same removes after a key of that node was given the value 0 and
\* then another value
RewriteCalls ==
    <<ScriptCall("upsert", ClusterC[24], 0), ScriptCall("upsert", ClusterC[24], MaxVal)>>
        \o ShrinkCalls

\* inserts of new keys <<5,5,5,5,x,y,z>> that take the same node to twice
\* its length and beyond
GrowLen == 78
GrowCalls ==
    [i \in 1..GrowLen |->
        ScriptCall("insert", Append(ClusterC[((i - 1) % 24) + 1], ((i - 1) \div 24) + 1),
                   MaxVal)]

\* inserts of new keys <<1,1,1,5,3,y,z>>, all for one empty position of the
\* root, in an order that is not the key order
PileLen == 20
PileKeys == Cluster(<<1, 1, 1, 5, 3>>, 4, 6)
PileCalls ==
    [i \in 1..PileLen |-> ScriptCall("insert", PileKeys[((i * 11) % PileLen) + 1], MaxVal)]

Scripts == <<ShrinkCalls, RewriteCalls, GrowCalls, PileCalls>>

ScriptBuild(s) ==
    /\ fault = "none"
    /\ ~hasBeenBuild
    /\ bulkload(DrainArg)
    /\ nops' = s
    /\ UNCHANGED <<drained, bulk_stack, walk>>

ScriptStep ==
    /\ fault = "none"
    /\ hasBeenBuild
    /\ drained < Len(Scripts[nops])
    /\ LET c == Scripts[nops][drained + 1]
       IN  \/ c.op = "insert" /\ insert(c.k, c.v)
           \/ c.op = "upsert" /\ upsert(c.k, c.v)
           \/ c.op = "remove" /\ remove(c.k)
    /\ drained' = drained + 1
    /\ UNCHANGED <<nops, bulk_stack, walk>>

NextScript ==
    \/ \E s \in DOMAIN Scripts : ScriptBuild(s)
    \/ ScriptStep

SpecScript == Init /\ [][NextScript]_vars

\* ------------------------------------------------------------------------
\* The contract of the index, claim by claim
\* ------------------------------------------------------------------------
\* a batch bulkload must accept: strictly ascending, so duplicate-free
StrictlyAscending(keys) ==
    \A i \in 2..Len(keys) : ustrcmp(keys[i - 1], keys[i]) < 0

Acceptable(b) ==
    Len(BatchKeys[b]) >= min_bulk_load_size /\ StrictlyAscending(BatchKeys[b])

\* keys next to the keys of a batch: each key cut by its last character and
\* each key extended by a character
NearKeys(keys) ==
    {SubSeq(keys[i], 1, Len(keys[i]) - 1) : i \in 1..Len(keys)}
        \cup {Append(keys[i], 1) : i \in 1..Len(keys)}

\* an operation was called on a built instance whose memory is live
Live == hasBeenBuild /\ ~freed

\* C1: for every strictly ascending batch of at least min_bulk_load_size
\* keys bulkload returns true, and then lookup(k) gives the value v for
\* every (k, v) of the batch and null for every key that is not in the batch
C1_BulkloadThenLookup ==
    (ret.op = "bulkload" /\ fault = "none" /\ Acceptable(ret.key.b)) =>
        /\ ret.result = TRUE
        /\ \A i \in 1..Len(BatchKVs[ret.key.b]) :
              ValOf(LITS_lookup(root, BatchKVs[ret.key.b][i].k, hpt))
                  = BatchKVs[ret.key.b][i].v
        /\ \A x \in OpKeys \cup NearKeys(BatchKeys[ret.key.b]) :
              keyIndex(BatchKeys[ret.key.b], x) = 0
                  => LITS_lookup(root, x, hpt) = NULL

\* a bulkload of the full batch under the index's own table has built a
\* model node at the root, and a lookup in it finds a key's value
C1_Witness ==
    /\ ret.op = "bulkload" /\ ret.result = TRUE /\ fault = "none"
    /\ bulk.b = "full" /\ bulk.h = "none" /\ root.t = ITYP_Mult
    /\ ValOf(LITS_lookup(root, <<3, 3, 3, 4, 2, 2>>, hpt))
           = keyIndex(BatchKeys["full"], <<3, 3, 3, 4, 2, 2>>)

\* C2: after a successful bulkload, whatever insert, upsert and remove calls
\* follow, no call goes wrong and lookup agrees with the reference map
\* stepped by the same calls
C2_AgreesWithReference ==
    (Live /\ ret.op \in {"insert", "upsert", "remove"}) =>
        /\ fault = "none"
        /\ \A k \in OpKeys : ValOf(LITS_lookup(root, k, hpt)) = RefVal(k)

\* C3: upsert(k, v) on a live index goes right whichever variant the descent
\* ends in: it returns the stored value of a present k and 0 for an absent
\* k, and lookup(k) gives v afterwards
C3_UpsertContract ==
    [][(ret'.op = "upsert" /\ Live /\ fault = "none") =>
          /\ fault' = "none"
          /\ ret'.result = IF LITS_lookup(root, ret'.key, hpt) = NULL THEN 0
                           ELSE LITS_lookup(root, ret'.key, hpt).v
          /\ ValOf(LITS_lookup(root', ret'.key, hpt')) = ret'.val]_vars

\* C4: insert(k, v) of a key that is present returns false and leaves the
\* whole index as it was
C4_InsertPresentNoOp ==
    [][(ret'.op = "insert" /\ Live /\ fault = "none"
            /\ LITS_lookup(root, ret'.key, hpt) # NULL) =>
          /\ ret'.result = FALSE
          /\ root' = root
          /\ fault' = "none"]_vars

\* an insert of a present key was refused by a full compact node
C4_Witness ==
    /\ ret.op = "insert" /\ Live /\ fault = "none" /\ ret.result = FALSE
    /\ descend(root, ret.key, 0, hpt, <<>>, <<>>).item.t = ITYP_CNod
    /\ key_cnt(descend(root, ret.key, 0, hpt, <<>>, <<>>).item) = CNODE_SIZE

\* C5: remove(k) of a key that is not present returns false and leaves the
\* whole index as it was, so that repeating it changes nothing
C5_RemoveAbsentNoOp ==
    [][(ret'.op = "remove" /\ Live /\ fault = "none"
            /\ LITS_lookup(root, ret'.key, hpt) = NULL) =>
          /\ ret'.result = FALSE
          /\ root' = root
          /\ fault' = "none"]_vars

\* a remove of an absent key was refused at a single entry, as the second
\* call on an index that still holds exactly the batch
C5_Witness ==
    /\ ret.op = "remove" /\ Live /\ fault = "none" /\ ret.result = FALSE
    /\ nops = 2 /\ ref = <<>>
    /\ descend(root, ret.key, 0, hpt, <<>>, <<>>).item.t = ITYP_Sing

\* C6: a scan from begin() is at the (n + 1)-th smallest present key after n
\* calls of next(), and is finished once every present key has been visited
C6_BeginScansAll ==
    (Live /\ ret.op \in {"begin", "next"} /\ scan # NULL /\ scan.op = "begin") =>
        /\ fault = "none"
        /\ iter.is_valid
        /\ IF scan.n < Len(RefKeys)
           THEN ~iter.is_end /\ ret.result.key = RefKeys[scan.n + 1]
           ELSE iter.is_end

\* C7: find(k) of a present key gives a valid iterator on k, and after n
\* calls of next() the scan is at the n-th present key after k, finished
\* once there is none
C7_FindThenNext ==
    (Live /\ ret.op \in {"find", "next"} /\ scan # NULL /\ scan.op = "find"
          /\ keyIndex(RefKeys, scan.key) # 0) =>
        /\ fault = "none"
        /\ iter.is_valid
        /\ IF keyIndex(RefKeys, scan.key) + scan.n <= Len(RefKeys)
           THEN ~iter.is_end
                /\ ret.result.key = RefKeys[keyIndex(RefKeys, scan.key) + scan.n]
           ELSE iter.is_end

\* C8: find(k) of a key that is not present gives an invalid iterator
C8_FindAbsentInvalid ==
    (Live /\ ret.op = "find" /\ RefVal(ret.key) = Absent) =>
        fault = "none" /\ ~iter.is_valid

\* C9: bulkload of a batch that is too short or not strictly ascending
\* returns false and builds nothing, and the next bulkload call is accepted
C9_BulkloadRefuses ==
    [][(ret'.op = "bulkload" /\ ~hasBeenBuild /\ fault = "none") =>
          /\ fault' = "none"
          /\ ~Acceptable(ret'.key.b) =>
                /\ ret'.result = FALSE
                /\ ~hasBeenBuild' /\ hpt' = NULL /\ pmss' = NULL /\ root' = NullItem]_vars

\* a bulkload refused a batch with a repeated key
C9_Witness ==
    /\ ret.op = "bulkload" /\ fault = "none" /\ ret.result = FALSE
    /\ ret.key.b = "repeated" /\ ~hasBeenBuild /\ root = NullItem

\* C10: every call but bulkload on an instance without a successful bulkload
\* traps, and so does bulkload on an instance with one
C10_BuildOnceFirst ==
    [][/\ (~hasBeenBuild /\ ret'.op # "bulkload") =>
              fault' = "assert" /\ ~hasBeenBuild' /\ root' = root
       /\ (hasBeenBuild /\ ret'.op = "bulkload") =>
              fault' = "assert" /\ root' = root]_vars

\* find trapped on an instance whose only bulkload was refused
C10_Witness ==
    /\ ret.op = "find" /\ fault = "assert" /\ ~hasBeenBuild
    /\ nops = 1

\* C11: destroy releases every block the instance has allocated exactly
\* once: for every kind of block the number released is the number allocated
\* (the table counts when the index made it)
C11_DestroyReleasesAll ==
    (ret.op = "destroy" /\ fault = "none" /\ freed) =>
        \A kind \in {"pmss", "inner", "cnode", "trie", "handle", "kv"}
                     \cup (IF bulk.h = "none" THEN {"hpt"} ELSE {}) :
            ret.result[kind] = Allocated(root, bulk.h = "none")[kind]

\* C12: once destroy has returned the instance refers to nothing it has
\* released, and no later call on it, a second destroy included, goes
\* through released storage
C12_InertAfterDestroy ==
    [][(freed /\ fault = "none") =>
          /\ fault' = "none"
          /\ hpt = NULL /\ pmss = NULL /\ root = NullItem]_vars

\* C13: destroy does not release a table the caller supplied to bulkload
C13_CallerTableKept ==
    (ret.op = "destroy" /\ fault = "none" /\ freed /\ bulk.h # "none") =>
        ret.result.hpt = 0

\* the prefix property below item, entered at ccpl.  With edges the two
\* boundary positions of a model node hold the keys below and above its
\* prefix and are entered with ccpl as it was; without, every position is
\* held to the prefix
RECURSIVE PrefixHolds(_, _, _)
PrefixHolds(item, ccpl, edges) ==
    item.t = ITYP_Mult =>
        LET icpl == Len(item.prefix)
            N    == item.item_array_length
        IN  \A p \in DOMAIN item.items :
                LET want == IF ~edges \/ icpl = 0 THEN 0
                            ELSE IF p = 0 THEN 1
                            ELSE IF p = N - 1 THEN -1
                            ELSE 0
                    below == recursive_extract(item.items[p])
                IN  /\ \A i \in 1..Len(below) :
                           ustrncmp(item.prefix, StrAt(below[i].k, ccpl), icpl) = want
                    /\ PrefixHolds(item.items[p],
                                   IF want = 0 THEN ccpl + icpl ELSE ccpl, edges)

RECURSIVE CountsHold(_)
CountsHold(item) ==
    item.t = ITYP_Mult =>
        /\ item.num_of_keys = Len(recursive_extract(item))
        /\ \A p \in DOMAIN item.items : CountsHold(item.items[p])

\* C16: the key count of every model node is the number of records below
\* it: a call that adds no record and takes none away (an overwriting
\* upsert, a failed insert, a failed remove) changes no count, an insert
\* adds one to every node of its path and a remove takes one from each
C16_CountsExact ==
    (Live /\ fault = "none") => CountsHold(root)

\* every model node below item holds more than a quarter of its length and
\* at most twice its length in records
RECURSIVE DensityHolds(_)
DensityHolds(item) ==
    item.t = ITYP_Mult =>
        /\ 4 * Len(recursive_extract(item)) > item.item_array_length
        /\ Len(recursive_extract(item)) <= 2 * item.item_array_length
        /\ \A p \in DOMAIN item.items : DensityHolds(item.items[p])

\* C15: after every completed insert, upsert and remove every model node
\* that can be reached holds keyCount records with N/4 < keyCount <= 2N,
\* N its item-array length
C15_DensityKept ==
    (Live /\ fault = "none" /\ ret.op \in {"insert", "upsert", "remove"}) =>
        DensityHolds(root)

\* the i-th model node of a path, and its updated count
PathNode(rt, path, i) == ItemAtPath(rt, SubSeq(path, 1, i - 1))

Resizes(node, num) ==
    num >= 2 * node.item_array_length \/ 4 * num <= node.item_array_length

\* the first model node of the path, from the root, whose count after the
\* change by delta asks for a rebuild, or 0
Outermost(rt, path, delta) ==
    IF \E i \in 1..Len(path) :
          Resizes(PathNode(rt, path, i), PathNode(rt, path, i).num_of_keys + delta)
    THEN CHOOSE i \in 1..Len(path) :
            /\ Resizes(PathNode(rt, path, i), PathNode(rt, path, i).num_of_keys + delta)
            /\ \A j \in 1..(i - 1) :
                  ~Resizes(PathNode(rt, path, j), PathNode(rt, path, j).num_of_keys + delta)
    ELSE 0

\* the tree with delta added to the count of the first j model nodes of the path
RECURSIVE Recount(_, _, _, _)
Recount(rt, path, j, delta) ==
    IF j = 0 THEN rt
    ELSE Recount(SetAt(rt, SubSeq(path, 1, j - 1),
                       [PathNode(rt, path, j) EXCEPT !.num_of_keys = @ + delta]),
                 path, j - 1, delta)

KeysOf(kvs) == {kvs[i].k : i \in 1..Len(kvs)}

\* what C17 says of a call with key k that changed the counts by delta and
\* took the tree rt to rt2
RebuildAsStated(rt, rt2, k, path, delta) ==
    LET i    == Outermost(rt, path, delta)
        here == SubSeq(path, 1, i - 1)
        num  == PathNode(rt, path, i).num_of_keys + delta
        was  == recursive_extract(PathNode(rt, path, i))
        now  == recursive_extract(ItemAtPath(rt2, here))
    IN  IF i = 0
        THEN \A j \in 1..Len(path) :
                /\ PathNode(rt2, path, j).t = ITYP_Mult
                /\ PathNode(rt2, path, j).item_array_length
                       = PathNode(rt, path, j).item_array_length
        ELSE /\ Len(now) = num
             /\ KeysOf(now) = IF delta > 0 THEN KeysOf(was) \cup {k}
                              ELSE KeysOf(was) \ {k}
             /\ SetAt(rt2, here, NullItem)
                    = SetAt(Recount(rt, path, i - 1, delta), here, NullItem)
             /\ CountsHold(ItemAtPath(rt2, here))
             /\ DensityHolds(ItemAtPath(rt2, here))

\* C17: a call that changed the number of keys walks its path from the
\* root; the first model node whose updated count is at least 2N or at most
\* N/4 is rebuilt from exactly the records below it, as many as the count
\* says, nothing outside that node's slot changes but the counts above it,
\* and no other node is rebuilt
C17_OneRebuild ==
    [][(/\ Live /\ fault = "none"
        /\ ret'.op \in {"insert", "upsert", "remove"}
        /\ IF ret'.op = "upsert" THEN ret'.result = 0 ELSE ret'.result = TRUE)
       => /\ fault' = "none"
          /\ RebuildAsStated(root, root', ret'.key,
                             descend(root, ret'.key, 0, hpt, <<>>, <<>>).path,
                             IF ret'.op = "remove" THEN 0 - 1 ELSE 1)]_vars

\* the largest number of entries of a compact node below item
RECURSIVE LargestCNode(_)
LargestCNode(item) ==
    IF item.t = ITYP_CNod THEN key_cnt(item)
    ELSE IF item.t = ITYP_Mult /\ DOMAIN item.items # {}
    THEN LET sizes == {LargestCNode(item.items[p]) : p \in DOMAIN item.items}
         IN  CHOOSE n \in sizes : \A m \in sizes : m <= n
    ELSE 0

\* the caller has inserted the first n keys of PileCalls
Piled(n) ==
    /\ Live /\ fault = "none"
    /\ nops \in DOMAIN Scripts /\ Scripts[nops] = PileCalls
    /\ drained = n

\* the position of the root the keys of PileCalls come to
PileSlot == Head(descend(root, PileCalls[1].k, 0, hpt, <<>>, <<>>).path)

\* C18: inserts of distinct new keys that all come to one empty position
\* take it from Null to a Single, to a compact node of 2 to 16 entries and,
\* with the 17th key, to a bulk-built model node or sub-trie; no compact
\* node ever has more than 16 entries, and after each insert lookup finds
\* every key inserted so far
C18_SlotGrows ==
    \A n \in 0..PileLen :
        Piled(n) =>
            /\ \A i \in 1..PileLen :
                  Head(descend(root, PileCalls[i].k, 0, hpt, <<>>, <<>>).path) = PileSlot
            /\ n > 0 => ret.result = TRUE
            /\ Len(recursive_extract(ItemAt(root, PileSlot))) = n
            /\ ItemAt(root, PileSlot).t =
                  IF n = 0 THEN ITYP_Null
                  ELSE IF n = 1 THEN ITYP_Sing
                  ELSE IF n <= CNODE_SIZE THEN ITYP_CNod
                  ELSE IF ItemAt(root, PileSlot).t = ITYP_Trie THEN ITYP_Trie
                  ELSE ITYP_Mult
            /\ LargestCNode(ItemAt(root, PileSlot)) <= CNODE_SIZE
            /\ \A i \in 1..n :
                  ValOf(LITS_lookup(root, PileCalls[i].k, hpt)) = PileCalls[i].v

\* the 17th key has been inserted: the full compact node was replaced
C18_Witness ==
    /\ Piled(CNODE_SIZE + 1)
    /\ ItemAt(root, PileSlot).t \in {ITYP_Mult, ITYP_Trie}

\* the keys of a record list
KeyList(kvs) == [i \in 1..Len(kvs) |-> kvs[i].k]

\* a resize has just rebuilt the node of the keys <<5,5,5,5,..>>
Resized ==
    /\ Live /\ fault = "none"
    /\ nops \in DOMAIN Scripts /\ Scripts[nops] = GrowCalls
    /\ ret.op = "insert"
    /\ LET path == descend(root, ret.key, 0, hpt, <<>>, <<>>).path
       IN  /\ Len(path) = 2
           /\ PathNode(root, path, 2).item_array_length
                  = 2 * (PathNode(root, path, 2).num_of_keys)

PrefixCmp(d, k, i) ==
    ustrncmp(PathNode(root, d.path, i).prefix, StrAt(k, d.ccpls[i]),
             Len(PathNode(root, d.path, i).prefix))

\* the model nodes of the descent of k whose prefix k does not carry
Mismatches(d, k) == {i \in 1..Len(d.path) : PrefixCmp(d, k, i) # 0}

\* the descent d of k leaves every model node whose prefix k does not carry
\* by position 0 when k is below the prefix and by position N-1 when above,
\* with ccpl as it was
BoundaryTaken(d, k) ==
    \A i \in Mismatches(d, k) :
        /\ d.path[i] = IF PrefixCmp(d, k, i) = 1 THEN 0
                       ELSE PathNode(root, d.path, i).item_array_length - 1
        /\ (IF i < Len(d.path) THEN d.ccpls[i + 1] ELSE d.ccpl) = d.ccpls[i]

DescentKeys == OpKeys \cup {<<1>>, <<2, 1>>, <<2, 6, 6, 6, 6, 6>>, <<6, 6, 6, 6, 6>>}

\* the ccpl a descent d has after its i-th model node
CcplAfter(d, i) == IF i < Len(d.path) THEN d.ccpls[i + 1] ELSE d.ccpl

\* C21: the position a descent takes in a model node is an index of its
\* item array: within 1..N-2 when the key carries the node's prefix, 0 or
\* N-1 when it does not; ccpl never decreases on the way down and grows by
\* the length of the prefix exactly when the key carries it
C21_PositionValid ==
    (Live /\ fault = "none") =>
        \A k \in DescentKeys :
            LET d == descend(root, k, 0, hpt, <<>>, <<>>)
            IN  \A i \in 1..Len(d.path) :
                    LET node == PathNode(root, d.path, i)
                    IN  /\ d.path[i] \in 0..(node.item_array_length - 1)
                        /\ CcplAfter(d, i) >= d.ccpls[i]
                        /\ IF PrefixCmp(d, k, i) = 0
                           THEN /\ d.path[i] \in 1..(node.item_array_length - 2)
                                /\ CcplAfter(d, i) = d.ccpls[i] + Len(node.prefix)
                           ELSE /\ d.path[i] \in {0, node.item_array_length - 1}
                                /\ CcplAfter(d, i) = d.ccpls[i]

\* a key above every key of the batch was taken to position N-2 of the
\* root, and a key came through two model nodes
C21_Witness ==
    /\ Live /\ fault = "none" /\ root.t = ITYP_Mult
    /\ descend(root, <<6, 6, 6, 6, 6>>, 0, hpt, <<>>, <<>>).path
           = <<root.item_array_length - 2>>
    /\ \E k \in DescentKeys : Len(descend(root, k, 0, hpt, <<>>, <<>>).path) = 2

\* item is as a build over the records below it, entered at ccpl a, makes it
RECURSIVE BuiltAsStated(_, _)
BuiltAsStated(item, a) ==
    IF item.t = ITYP_CNod THEN item.ccpl = a
    ELSE item.t = ITYP_Mult =>
        LET group == recursive_extract(item)
            s     == Len(group)
            gcpl  == ucpl(group[1].k, group[s].k)
            N     == item.item_array_length
        IN  /\ N = 2 * s
            /\ item.num_of_keys = s
            /\ item.prefix = SubSeq(group[1].k, a + 1, gcpl)
            /\ 0 \notin DOMAIN item.items
            /\ (N - 1) \notin DOMAIN item.items
            /\ StrictlyAscending(KeyList(group))
            /\ \A p \in DOMAIN item.items :
                  /\ item.items[p] # NullItem
                  /\ \A e \in {recursive_extract(item.items[p])[i] :
                                 i \in 1..Len(recursive_extract(item.items[p]))} :
                        predictPos(item, e.k, a, hpt).pos = p
                  /\ BuiltAsStated(item.items[p], gcpl)

\* C22: a model node built over a group of s keys at ccpl a has length 2s,
\* key count s, the bytes [a, gcpl) of the first key as its prefix, nothing
\* at the positions 0 and N-1, and the group cut into runs in key order,
\* each run at the position predicted for all of its keys and built at gcpl
C22_BuiltNode ==
    (ret.op = "bulkload" /\ fault = "none" /\ hasBeenBuild) => BuiltAsStated(root, 0)

\* a build has made a model node with a prefix below the root, with a
\* compact node in it
C22_Witness ==
    /\ ret.op = "bulkload" /\ fault = "none" /\ hasBeenBuild /\ root.t = ITYP_Mult
    /\ \E p \in DOMAIN root.items :
          /\ root.items[p].t = ITYP_Mult
          /\ Len(root.items[p].prefix) > 0
          /\ \E q \in DOMAIN root.items[p].items : root.items[p].items[q].t = ITYP_CNod

\* no model node below item, entered at ccpl a and built with front-char
\* bucket fb, is over a group whose build fails: the cdf of the last key is
\* above that of the first, the first and the last key are predicted to
\* different positions, and the predicted positions do not decrease
RECURSIVE NoFailedModel(_, _, _)
NoFailedModel(item, a, fb) ==
    item.t = ITYP_Mult =>
        LET group == recursive_extract(item)
            s     == Len(group)
            gcpl  == ucpl(group[1].k, group[s].k)
            pos   == [i \in 1..s |-> predictPos(item, group[i].k, a, hpt).pos]
        IN  /\ getCdf(hpt, group[s].k, gcpl, fb) > getCdf(hpt, group[1].k, gcpl, fb)
            /\ pos[1] < pos[s]
            /\ \A i \in 2..s : pos[i - 1] <= pos[i]
            /\ \A i \in 1..s : pos[i] \in 0..(item.item_array_length - 1)
            /\ \A p \in DOMAIN item.items : NoFailedModel(item.items[p], gcpl, fb)

\* the build of the whole batch of a bulkload fails on the cdf of its first
\* and last key
CdfFails(a) ==
    LET first == BatchKeys[a.b][1]
        last  == BatchKeys[a.b][Len(BatchKeys[a.b])]
    IN  getCdf(hpt, last, ucpl(first, last), a.fb)
            <= getCdf(hpt, first, ucpl(first, last), a.fb)

BuildStart(a) ==
    /\ bulk = NULL
    /\ ~(Len(BatchKeys[a.b]) < min_bulk_load_size
          \/ ~checkSortedUnique(BatchKeys[a.b]))
    /\ hpt' = IF a.h # "none" THEN HptArg(a.h) ELSE train(BatchKeys[a.b])
    /\ pmss' = PmssPolicies[a.p]
    /\ bulk' = a
    /\ bulk_stack' = {[l |-> 0, r |-> Len(BatchKVs[a.b]), ccpl |-> 0]}
    /\ UNCHANGED <<hasBeenBuild, root, fault, ret, ref, freed, iter, scan, nops,
                   drained, walk>>

\* the call for the pending group that comes first in the batch
NextGroup == CHOOSE g \in bulk_stack : \A h \in bulk_stack : g.l <= h.l

\* the groups one pmss_bulk call pushes: none for a Single, a compact node
\* or a sub-trie, the branches of the model node otherwise
Pushed(g) ==
    LET kvs == BatchKVs[bulk.b]
        size == g.r - g.l
    IN  IF size <= CNODE_SIZE THEN {}
        ELSE IF decideSubType(pmss, size, getGPKL(kvs, g.l, g.r)) # STYP_Items THEN {}
        ELSE UNION {{[l |-> e.l_in_kvs, r |-> e.r_in_kvs, ccpl |-> b.gcpl] : e \in b.stack}
                    : b \in {bulk_groups(kvs, g.l, g.r, g.ccpl, hpt, bulk.fb)}}

BuildStep ==
    /\ bulk_stack # {}
    /\ bulk_stack' = (bulk_stack \ {NextGroup}) \cup Pushed(NextGroup)
    /\ UNCHANGED <<hasBeenBuild, hpt, pmss, root, fault, ret, bulk, ref, freed,
                   iter, scan, nops, drained, walk>>

NextBuild ==
    \/ \E a \in BulkArgs : BuildStart(a)
    \/ BuildStep

\* the calls of one bulk load are made one after the other without waiting:
\* weak fairness of BuildStep, with its enabling condition (a group is
\* pending) written out
BuildFair == []<>(bulk_stack = {}) \/ []<><<BuildStep>>_vars

SpecBuild == Init /\ [][NextBuild]_vars /\ BuildFair

\* every group a call pushes lies inside the group of the call and has
\* fewer keys
ChildGroupsSmaller ==
    \A h \in bulk_stack' \ bulk_stack :
        \E g \in bulk_stack \ bulk_stack' :
            g.l <= h.l /\ h.r <= g.r /\ h.r - h.l < g.r - g.l

GroupStarts == {0, 500}
GroupSizes == {1, 2, CNODE_SIZE, CNODE_SIZE + 1, 40}

\* the item pmss_bulk returns for the group [l, l + s) of batch b with the
\* table and the policy of the index
GroupItem(b, l, s) == pmss_bulk(BatchKVs[b], l, l + s, 0, hpt, pmss, 0 - 1)

\* C24: pmss_bulk returns a Single for one key and a compact node for 2 to
\* 16 keys, whatever the policy; for more keys a model node only when the
\* policy chooses Items and the build does not fail, and a sub-trie in
\* every other case; the item holds exactly the records of the group
C24_BulkVariant ==
    (ret.op = "bulkload" /\ fault = "none" /\ hasBeenBuild) =>
        \A l \in GroupStarts, s \in GroupSizes :
            \A it \in {GroupItem(bulk.b, l, s)} :
                /\ recursive_extract(it) = SubSeq(BatchKVs[bulk.b], l + 1, l + s)
                /\ s = 1 => it.t = ITYP_Sing
                /\ (2 <= s /\ s <= CNODE_SIZE) => it.t = ITYP_CNod
                /\ s > CNODE_SIZE =>
                      /\ it.t \in {ITYP_Mult, ITYP_Trie}
                      /\ it.t = ITYP_Mult =>
                            /\ decideSubType(pmss, s, getGPKL(BatchKVs[bulk.b], l, l + s))
                                   = STYP_Items
                            /\ NoFailedModel(it, 0, 0 - 1)
                      /\ decideSubType(pmss, s, getGPKL(BatchKVs[bulk.b], l, l + s))
                             = STYP_Trie => it.t = ITYP_Trie

\* under one policy a group of 17 keys is built as a model node, and under
\* another as a sub-trie
C24_Witness ==
    /\ ret.op = "bulkload" /\ fault = "none" /\ hasBeenBuild
    /\ GroupItem(bulk.b, 0, CNODE_SIZE + 1).t = ITYP_Mult
    /\ GroupItem(bulk.b, 0, CNODE_SIZE).t = ITYP_CNod

RECURSIVE CNodesHold(_, _)
\* the compact nodes below item, each with the prefix length the descent
\* has confirmed when it reaches the node, meet the node invariant
CNodesHold(item, ccpl) ==
    IF item.t = ITYP_CNod
    THEN /\ key_cnt(item) \in 1..CNODE_SIZE
         /\ item.ccpl = ccpl
         /\ \A i \in 2..key_cnt(item) :
                ustrcmp(item.data[i - 1].kv.k, item.data[i].kv.k) < 0
         /\ \A i \in 1..key_cnt(item) :
                /\ ucpl(item.data[1].kv.k, item.data[i].kv.k) >= ccpl
                /\ item.data[i].h = hashStr(item.data[i].kv.k)
    ELSE IF item.t = ITYP_Mult
    THEN \A p \in DOMAIN item.items :
             CNodesHold(item.items[p],
                        IF p \in {0, item.item_array_length - 1} THEN ccpl
                        ELSE ccpl + Len(item.prefix))
    ELSE TRUE

\* C26: every compact node of the index holds 1 to 16 entries in strictly
\* ascending key order, its keys agree on the first ccpl bytes, the ccpl it
\* records is the prefix length confirmed on the path to it, and the tag of
\* every entry is the hash of its key
C26_CNodeInvariant ==
    (Live /\ fault = "none") => CNodesHold(root, 0)

\* an insert has just made a compact node out of a Single, or added an
\* entry to a compact node
C26_Witness ==
    /\ Live /\ fault = "none"
    /\ ret.op = "insert" /\ ret.result = TRUE
    /\ LET d == descend(root, ret.key, 0, hpt, <<>>, <<>>)
       IN  d.item.t = ITYP_CNod /\ Len(d.path) > 0

\* a remove(k) that ends without a fault is taken from a state in which the
\* descent for k ends at a compact node
RemoveAtCNode ==
    /\ Live /\ fault = "none"
    /\ ret'.op = "remove" /\ fault' = "none"
    /\ descend(root, ret'.key, 0, hpt, <<>>, <<>>).item.t = ITYP_CNod

\* what the remove has made of the compact node: the slot is read after the
\* call where no model node of the path was rebuilt, and the records of the
\* index are compared in every case
RemovedAsStated ==
    LET k      == ret'.key
        d      == descend(root, k, 0, hpt, <<>>, <<>>)
        before == extract_cnode(d.item)
        hit    == {i \in 1..Len(before) : before[i].k = k}
        rest   == SelectSeq(before, LAMBDA e : e.k # k)
        kept   == Outermost(root, d.path, 0 - 1) = 0
        after  == ItemAtPath(root', d.path)
    IN  IF hit = {}
        THEN root' = root /\ ret'.result = FALSE
        ELSE /\ ret'.result = TRUE
             /\ Cardinality(hit) = 1
             /\ recursive_extract(root')
                    = SelectSeq(recursive_extract(root), LAMBDA e : e.k # k)
             /\ kept =>
                   IF Len(before) > 2
                   THEN after.t = ITYP_CNod /\ extract_cnode(after) = rest
                        /\ after.ccpl = d.item.ccpl
                   ELSE after = SingItem(rest[1])

KvNew(it, ccpl, op, k) ==
    IF op = "remove" THEN 0
    ELSE IF it.t \in {ITYP_Trie, ITYP_Null} THEN 1
    ELSE IF it.t = ITYP_Sing THEN (IF keycmp(it.kv, k, ccpl) = 0 THEN 0 ELSE 1)
    ELSE IF k \in KeysOf(extract_cnode(it)) THEN 0 ELSE 1

\* records the terminal operation releases: free_kv in sing_remove,
\* _cnode_withRoom_remove and _cnode_degrade; trie_remove has none
KvFree(it, ccpl, op, k) ==
    IF op # "remove" THEN 0
    ELSE IF it.t = ITYP_Sing /\ keycmp(it.kv, k, ccpl) = 0 THEN 1
    ELSE IF it.t = ITYP_CNod /\ cnodeMatch(it, k) # 0 THEN 1
    ELSE 0

RECURSIVE TrieRecords(_), TrieRecordsIn(_, _)
\* records held by the sub-tries below item: HOTBulkload has stored a new
\* record ST_kv(kvs[i].k, kvs[i].v) for each of them
TrieRecords(item) ==
    IF item.t = ITYP_Trie THEN Len(item.hot)
    ELSE IF item.t = ITYP_Mult THEN TrieRecordsIn(item, DOMAIN item.items)
    ELSE 0

TrieRecordsIn(item, P) ==
    IF P = {} THEN 0
    ELSE LET p == CHOOSE q \in P : TRUE
         IN  TrieRecords(item.items[p]) + TrieRecordsIn(item, P \ {p})

\* an insert, upsert or remove that ends without a fault and rebuilds no
\* model node of its path
CallKeepsNodes ==
    /\ Live /\ fault = "none" /\ fault' = "none"
    /\ ret'.op \in {"insert", "upsert", "remove"}
    /\ LET d == descend(root, ret'.key, 0, hpt, <<>>, <<>>)
           counted == IF ret'.op = "upsert" THEN ret'.result = 0
                      ELSE ret'.result = TRUE
       IN  ~counted \/ Outermost(root, d.path, IF ret'.op = "remove" THEN 0 - 1 ELSE 1) = 0

\* the records the call has allocated and not released are the records the
\* index has gained: none is left without a position that refers to it
RecordsOwned ==
    LET d     == descend(root, ret'.key, 0, hpt, <<>>, <<>>)
        after == ItemAtPath(root', d.path)
        built == IF d.item.t = ITYP_CNod /\ ~has_room(d.item) /\ after # d.item
                 THEN TrieRecords(after) ELSE 0
    IN  Len(recursive_extract(root')) - Len(recursive_extract(root))
            = KvNew(d.item, d.ccpl, ret'.op, ret'.key) + built
                  - KvFree(d.item, d.ccpl, ret'.op, ret'.key)

\* C28: between operations every record that is allocated and not released
\* is referred to by exactly one position of the index: what a call
\* allocates and does not release, the index holds after the call
C28_OwnershipTree == [][CallKeepsNodes => RecordsOwned]_<<root, nops>>

\* C29: an iterator that is valid and not finished, after begin(), find()
\* or next(), is positioned on one record stored in the index: getKV()
\* returns that record, also after removes have emptied a sub-trie or a
\* position the scan passes
C29_IterOnRecord ==
    (Live /\ iter # NULL /\ ret.op \in {"find", "begin", "next"}
          /\ iter.is_valid /\ ~iter.is_end) =>
        /\ fault = "none"
        /\ getKV(root, iter).fault = "none"
        /\ \E kvs \in {recursive_extract(root)}, e \in {getKV(root, iter).kv} :
               \E i \in DOMAIN kvs : kvs[i] = e

\* ---- the bounded stacks of a descent ----

\* PathStack::record_path with stack_op frames recorded: the frame goes to
\* p[stack_op] of path p[MAX_STACK] and stack_op is advanced; nothing looks
\* at stack_op first, so the frame after the last is a write past the array
record_path(stack_op) ==
    [top |-> stack_op + 1,
     fault |-> IF stack_op < MAX_STACK THEN "none" ELSE "ub"]

\* LITS_Iterator::InnerNode_recordPath and the push of FIRST with the top
\* frame at depth: RT_ASSERT(depth < MAX_STACK - 1), then path[++depth]
InnerNode_recordPath(depth) ==
    IF depth < MAX_STACK - 1 THEN [top |-> depth + 1, fault |-> "none"]
    ELSE [top |-> depth, fault |-> "assert"]

\* the calls that descend with a PathStack; find and begin descend with the
\* iterator's frames
PathOps == {"insert", "upsert", "remove"}

WalkOps == PathOps \cup {"find", "begin"}

\* model nodes on the way to the record: one fewer than the stack holds, as
\* many, one more
WalkDepths == {MAX_STACK - 1, MAX_STACK, MAX_STACK + 1}

\* a call starts at the root: PathStack() has stack_op = 0, the iterator's
\* constructor sets depth = -1
WalkStart(op, n) ==
    /\ walk = NULL
    /\ fault = "none"
    /\ walk' = [op |-> op, mnodes |-> n, passed |-> 0,
                top |-> IF op \in PathOps THEN 0 ELSE 0 - 1]
    /\ UNCHANGED <<hasBeenBuild, hpt, pmss, root, fault, ret, bulk, ref, freed,
                   iter, scan, nops, drained, bulk_stack>>

\* one turn of the descent loop: the item is a model node, its frame is
\* recorded and the descent goes on below it
WalkStep ==
    /\ ~(walk = NULL)
    /\ fault = "none"
    /\ walk.passed < walk.mnodes
    /\ \E r \in {IF walk.op \in PathOps THEN record_path(walk.top)
                  ELSE InnerNode_recordPath(walk.top)} :
           /\ walk' = [walk EXCEPT !.passed = @ + 1, !.top = r.top]
           /\ fault' = r.fault
    /\ UNCHANGED <<hasBeenBuild, hpt, pmss, root, ret, bulk, ref, freed, iter,
                   scan, nops, drained, bulk_stack>>

NextWalk ==
    \/ \E op \in WalkOps, n \in WalkDepths : WalkStart(op, n)
    \/ WalkStep

SpecWalk == Init /\ [][NextWalk]_vars

\* C30: a descent that has passed more model nodes than the stack holds
\* has ended in the runtime assertion, whichever call makes it: insert,
\* upsert and remove with the path stack, find and begin with the
\* iterator's frames
C30_DeepDescentTraps ==
    (~(walk = NULL) /\ walk.passed > MAX_STACK) => fault = "assert"

====
